---------------------------- MODULE Spec2Model ----------------------------
(***************************************************************************)
(* A model of the Growatt monitor's API server (src/src/api_server.py):    *)
(* the polling thread, the monthly CSV store, the recent-history buffer    *)
(* and the aggregation and earnings queries.                               *)
(*                                                                         *)
(* Units.  Powers are integers in watts (the code's kW rounded to three    *)
(* decimals, times 1000); register values are in 0.1 W as the inverter     *)
(* reports them; energies are accumulated in watt-seconds and turned into  *)
(* kWh only where the code rounds.  A timestamp is a record                *)
(* [y, m, d, sod] (sod: second of the day); TsLess orders timestamps as the *)
(* code's ISO-8601 strings order.                                          *)
(***************************************************************************)
EXTENDS Integers, Sequences, FiniteSets, TLC

VARIABLES
    clock,            \* wall clock, in ticks of TickSec seconds after Epoch
    history_size,     \* config["history_size"]
    log_file,         \* config["log_file"]: the legacy file's path, or NoPath
    current_data,     \* the current snapshot (global dict)
    historical_data,  \* the recent-history buffer (global list)
    data_lock,        \* holder of data_lock: "free", "poller"
    files,            \* the file system: path -> sequence of CSV rows
    pc,               \* the polling thread's position in poll_inverter
    cyc,              \* the polling thread's locals of the current cycle
    pushed,           \* history: every sample appended to historical_data
    result            \* what the query returned

vars == <<clock, history_size, log_file, current_data, historical_data,
          data_lock, files, pc, cyc, pushed, result>>

\* A value that may be missing: Some(v), or None (Python's None).
Some(v) == <<TRUE, v>>
None == <<FALSE, 0>>
IsNone(x) == ~x[1]

(***************************************************************************)
(* Bounds of the model.                                                    *)
(***************************************************************************)
MaxClock == 3
MaxHist == 2

(***************************************************************************)
(* Calendar and clock.                                                     *)
(***************************************************************************)
TickSec == 5
SecPerDay == 86400
SecPerHour == 3600

Epoch == [y |-> 2024, m |-> 12, d |-> 31, sod |-> 86390]

IsLeap(y) == (y % 4 = 0 /\ y % 100 # 0) \/ y % 400 = 0

DaysInMonth(y, m) ==
    IF m = 2 THEN (IF IsLeap(y) THEN 29 ELSE 28)
    ELSE IF m \in {4, 6, 9, 11} THEN 30 ELSE 31

NextDay(t) ==
    IF t.d < DaysInMonth(t.y, t.m) THEN [t EXCEPT !.d = t.d + 1]
    ELSE IF t.m < 12 THEN [t EXCEPT !.m = t.m + 1, !.d = 1]
    ELSE [t EXCEPT !.y = t.y + 1, !.m = 1, !.d = 1]

RECURSIVE AddSeconds(_, _)
AddSeconds(t, n) ==
    IF t.sod + n < SecPerDay THEN [t EXCEPT !.sod = t.sod + n]
    ELSE AddSeconds([NextDay(t) EXCEPT !.sod = 0], t.sod + n - SecPerDay)

\* datetime.now()
Now == AddSeconds(Epoch, clock * TickSec)

DateOf(t) == <<t.y, t.m, t.d>>
HourOf(t) == t.sod \div SecPerHour

\* The order of dates, and of the ISO-8601 strings the code sorts by.
DateKey(dt) == (dt[1] * 12 + (dt[2] - 1)) * 31 + (dt[3] - 1)
TsLess(a, b) ==
    \/ DateKey(DateOf(a)) < DateKey(DateOf(b))
    \/ DateOf(a) = DateOf(b) /\ a.sod < b.sod
TsLeq(a, b) == ~TsLess(b, a)

(***************************************************************************)
(* Paths of the store.                                                     *)
(***************************************************************************)
NoPath == <<0, 0>>
LegacyPath == <<0, 1>>

\* dt.strftime('%Y-%m') joined to log_dir: one path per (year, month)
get_monthly_log_file(t) == <<t.y, t.m>>

(***************************************************************************)
(* CSV rows.  A stored cell is text: Num(v) is the decimal text of v,      *)
(* BadText a text float() rejects, None a cell the row does not have.      *)
(***************************************************************************)
Num(v) == [tag |-> "num", v |-> v]
BadText == [tag |-> "txt", v |-> 0]
NoCell == [tag |-> "none", v |-> 0]

\* timestamp of current_data before the first poll (None)
NoTs == [y |-> 0, m |-> 0, d |-> 0, sod |-> 0]
TsCell(t) == [tag |-> "ts", ts |-> t]
BadTsCell == [tag |-> "txt", ts |-> NoTs]

fieldnames == <<"timestamp", "solar", "load", "grid_export", "grid_import",
                "battery_charge", "battery_discharge", "battery_net",
                "soc_inv", "soc_bms">>
NumFields == {"solar", "load", "grid_export", "grid_import",
              "battery_charge", "battery_discharge", "battery_net",
              "soc_inv", "soc_bms"}
MeasFields == NumFields \cup {"timestamp"}

HeaderRow == [kind |-> "header"]

\* csv.DictWriter.writerow({k: data.get(k, 0) for k in fieldnames})
RowOf(data) ==
    [kind |-> "row",
     timestamp |-> TsCell(data.timestamp),
     cells |-> [k \in NumFields |-> Num(data[k])]]

(***************************************************************************)
(* Register reads of one cycle (read_u32, read_s32, read_u16): each is a   *)
(* value in 0.1 W (a percentage for the SOC registers), or None when       *)
(* robust_read_input_registers timed out.                                  *)
(***************************************************************************)
AllNone == [pv_raw |-> None, grid_import_raw |-> None,
            grid_export_raw |-> None, load_raw |-> None,
            soc_inv |-> None, soc_bms |-> None]

Readings ==
    { AllNone,
      [pv_raw |-> Some(30000), grid_import_raw |-> Some(0),
       grid_export_raw |-> Some(10000), load_raw |-> Some(15000),
       soc_inv |-> Some(55), soc_bms |-> Some(54)],
      [pv_raw |-> Some(0), grid_import_raw |-> Some(20005),
       grid_export_raw |-> Some(0), load_raw |-> Some(25000),
       soc_inv |-> Some(40), soc_bms |-> None] }

\* x if x is not None else 0
OrZero(x) == IF IsNone(x) THEN 0 ELSE x[2]
\* soc if soc else 0
Truthy(x) == IF IsNone(x) \/ x[2] = 0 THEN 0 ELSE x[2]
Max(a, b) == IF a >= b THEN a ELSE b
\* Min as it would be if the second value set no limit.
Unlimited(a, b) == a
Min(a, b) == IF a <= b THEN a ELSE b

\* Round3 as it would be if a half were always rounded upwards.
Round3HalfUp(x) == IF x % 10 < 5 THEN x \div 10 ELSE (x \div 10) + 1

\* round(x / 10.0 / 1000.0, 3) for x in 0.1 W, as watts (half to even)
Round3(x) ==
    LET f == x \div 10
        r == x % 10
    IN  IF r < 5 THEN f
        ELSE IF r > 5 THEN f + 1
        ELSE IF f % 2 = 0 THEN f ELSE f + 1

\* The dict poll_inverter passes to current_data.update (lines 239-270).
SampleOf(regs, timestamp) ==
    LET pv == OrZero(regs.pv_raw)
        grid_import == OrZero(regs.grid_import_raw)
        grid_export == OrZero(regs.grid_export_raw)
        load_val == OrZero(regs.load_raw)
        battery_net == pv + grid_import - grid_export - load_val
        battery_charge == Max(battery_net, 0)
        battery_discharge == Max(0 - battery_net, 0)
    IN  [timestamp |-> timestamp,
         solar |-> Round3(pv),
         battery_discharge |-> Round3(battery_discharge),
         grid_import |-> Round3(grid_import),
         battery_charge |-> Round3(battery_charge),
         load |-> Round3(load_val),
         grid_export |-> Round3(grid_export),
         battery_net |-> Round3(battery_net),
         soc_inv |-> Truthy(regs.soc_inv),
         soc_bms |-> Truthy(regs.soc_bms),
         connected |-> TRUE]

\* current_data before the first poll (lines 58-70)
InitialData ==
    [timestamp |-> NoTs, solar |-> 0, battery_discharge |-> 0,
     grid_import |-> 0, battery_charge |-> 0, load |-> 0, grid_export |-> 0,
     battery_net |-> 0, soc_inv |-> 0, soc_bms |-> 0, connected |-> FALSE]

Meas(data) == [k \in MeasFields |-> data[k]]

(***************************************************************************)
(* The polling thread (poll_inverter) and the store's write path.          *)
(***************************************************************************)
\* history_size values a configuration gives: a capacity of at least 1
HistSizes == 1 .. MaxHist

InitCyc == [regs |-> AllNone, timestamp |-> NoTs, max_history |-> 0,
            log |-> "none"]

NoResult == [op |-> "none"]

Exists(p) == p \in DOMAIN files

\* log_to_csv as it would be if every append wrote the header.
log_to_csv_with_header(data) ==
    LET filepath == get_monthly_log_file(Now)
        old == IF Exists(filepath) THEN files[filepath] ELSE <<>>
    IN  [p \in DOMAIN files \cup {filepath} |->
            IF p = filepath THEN Append(Append(old, HeaderRow), RowOf(data))
            ELSE files[p]]

\* log_to_csv(data) (lines 293-307): the path is that of the month of
\* datetime.now() at the time of the write.
log_to_csv(data) ==
    LET filepath == get_monthly_log_file(Now)
        file_exists == Exists(filepath) /\ Len(files[filepath]) > 0
        old == IF Exists(filepath) THEN files[filepath] ELSE <<>>
        new == (IF file_exists THEN old ELSE Append(old, HeaderRow))
    IN  [p \in DOMAIN files \cup {filepath} |->
            IF p = filepath THEN Append(new, RowOf(data)) ELSE files[p]]

\* historical_data.append(...); if len(historical_data) > max_history: pop(0)
Push(buf, sample, max_history) ==
    LET appended == Append(buf, sample)
    IN  IF Len(appended) > max_history THEN Tail(appended) ELSE appended

\* Lines 231-254: the register reads, then timestamp = datetime.now().
PollRead ==
    /\ pc = "read"
    /\ \E r \in Readings :
          cyc' = [InitCyc EXCEPT !.regs = r, !.timestamp = Now]
    /\ pc' = "lock"
    /\ UNCHANGED <<clock, history_size, log_file, current_data,
                   historical_data, data_lock, files, pushed, result>>

\* with data_lock: (line 257 and line 287)
PollAcquire ==
    /\ pc \in {"lock", "except"}
    /\ data_lock = "free"
    /\ data_lock' = "poller"
    /\ pc' = IF pc = "lock" THEN "update" ELSE "handler"
    /\ UNCHANGED <<clock, history_size, log_file, current_data,
                   historical_data, files, cyc, pushed, result>>

\* Lines 258-278: the body of the with block, and the release at its end.
PollUpdate ==
    /\ pc = "update"
    /\ data_lock = "poller"
    /\ LET sample == SampleOf(cyc.regs, cyc.timestamp)
       IN  /\ current_data' = sample
           /\ historical_data' = Push(historical_data, sample, history_size)
           /\ pushed' = Append(pushed, sample)
    /\ cyc' = [cyc EXCEPT !.max_history = history_size]
    /\ data_lock' = "free"
    /\ pc' = "log"
    /\ UNCHANGED <<clock, history_size, log_file, files, result>>

\* Line 281: log_to_csv(current_data), which returns ...
PollLogOk ==
    /\ pc = "log"
    /\ files' = log_to_csv(current_data)
    /\ cyc' = [cyc EXCEPT !.log = "ok"]
    /\ pc' = "sleep"
    /\ UNCHANGED <<clock, history_size, log_file, current_data,
                   historical_data, data_lock, pushed, result>>

\* ... or raises (open() fails with an OSError): control goes to line 285.
PollLogFail ==
    /\ pc = "log"
    /\ cyc' = [cyc EXCEPT !.log = "failed"]
    /\ pc' = "except"
    /\ UNCHANGED <<clock, history_size, log_file, current_data,
                   historical_data, data_lock, files, pushed, result>>

\* PollExcept as it would be if the handler undid the cycle's push.
PollExceptRollback ==
    /\ pc = "handler"
    /\ data_lock = "poller"
    /\ current_data' = [current_data EXCEPT !.connected = FALSE]
    /\ historical_data' = SubSeq(historical_data, 1, Len(historical_data) - 1)
    /\ data_lock' = "free"
    /\ pc' = "sleep"
    /\ UNCHANGED <<clock, history_size, log_file, files, cyc, pushed, result>>

\* PollExcept as it would be if the handler never released the lock.
PollExceptHolding ==
    /\ pc = "handler"
    /\ data_lock = "poller"
    /\ current_data' = [current_data EXCEPT !.connected = FALSE]
    /\ pc' = "sleep"
    /\ UNCHANGED <<clock, history_size, log_file, historical_data, data_lock,
                   files, cyc, pushed, result>>

\* Lines 287-288: current_data["connected"] = False, under the lock.
PollExcept ==
    /\ pc = "handler"
    /\ data_lock = "poller"
    /\ current_data' = [current_data EXCEPT !.connected = FALSE]
    /\ data_lock' = "free"
    /\ pc' = "sleep"
    /\ UNCHANGED <<clock, history_size, log_file, historical_data, files,
                   cyc, pushed, result>>

\* Line 290: time.sleep(interval); the next cycle starts an interval later.
PollSleep ==
    /\ pc = "sleep"
    /\ clock < MaxClock
    /\ clock' = clock + 1
    /\ pc' = "read"
    /\ UNCHANGED <<history_size, log_file, current_data, historical_data,
                   data_lock, files, cyc, pushed, result>>

\* Time passes while the thread works (retries, file I/O, scheduling).
Tick ==
    /\ clock < MaxClock
    /\ clock' = clock + 1
    /\ UNCHANGED <<history_size, log_file, current_data, historical_data,
                   data_lock, files, pc, cyc, pushed, result>>

\* manage_config, POST (lines 1058-1066): config.update(new_config), with
\* no lock taken.
SetConfig ==
    /\ \E n \in HistSizes : n # history_size /\ history_size' = n
    /\ UNCHANGED <<clock, log_file, current_data, historical_data,
                   data_lock, files, pc, cyc, pushed, result>>

Init ==
    /\ clock = 0
    /\ history_size \in HistSizes
    /\ log_file = LegacyPath
    /\ current_data = InitialData
    /\ historical_data = <<>>
    /\ data_lock = "free"
    /\ files = <<>>
    /\ pc = "read"
    /\ cyc = InitCyc
    /\ pushed = <<>>
    /\ result = NoResult

Next ==
    \/ PollRead
    \/ PollAcquire
    \/ PollUpdate
    \/ PollLogOk
    \/ PollLogFail
    \/ PollExcept
    \/ PollSleep
    \/ Tick
    \/ SetConfig

Spec == Init /\ [][Next]_vars

(***************************************************************************)
(* The store's read path: read_csv_data and get_log_files_for_date_range.  *)
(***************************************************************************)
\* The order in which read_csv_data converts a row's cells (lines 328-336).
ConvertOrder == <<"solar", "load", "grid_export", "grid_import",
                  "battery_charge", "battery_discharge", "battery_net",
                  "soc_inv", "soc_bms">>

\* The first cell of the row, in conversion order, that float() does not
\* take, or 0: a text raises ValueError, a missing cell (None) TypeError.
RECURSIVE FirstBadCell(_, _)
FirstBadCell(row, i) ==
    IF i > Len(ConvertOrder) THEN 0
    ELSE IF row.cells[ConvertOrder[i]].tag # "num" THEN i
    ELSE FirstBadCell(row, i + 1)

\* What the body of the loop does with one row (lines 317-339):
\* "keep", "skip" (continue, or an exception the inner handler catches) or
\* "abort" (an exception only the outer handler catches: the loop ends).
RowOutcome(row, start_date, end_date) ==
    IF row.kind # "row" \/ row.timestamp.tag # "ts" THEN "skip"
    ELSE IF DateKey(DateOf(row.timestamp.ts)) < DateKey(start_date) THEN "skip"
    ELSE IF DateKey(DateOf(row.timestamp.ts)) > DateKey(end_date) THEN "skip"
    ELSE LET b == FirstBadCell(row, 1)
         IN  IF b = 0 THEN "keep"
             ELSE IF row.cells[ConvertOrder[b]].tag = "txt" THEN "skip"
             ELSE "abort"

\* The dict appended for a kept row (lines 326-337).
ParseRow(row) ==
    [timestamp |-> row.timestamp.ts,
     solar |-> row.cells["solar"].v,
     load |-> row.cells["load"].v,
     grid_export |-> row.cells["grid_export"].v,
     grid_import |-> row.cells["grid_import"].v,
     battery_charge |-> row.cells["battery_charge"].v,
     battery_discharge |-> row.cells["battery_discharge"].v,
     battery_net |-> row.cells["battery_net"].v,
     soc_inv |-> row.cells["soc_inv"].v,
     soc_bms |-> row.cells["soc_bms"].v]

RECURSIVE ReadRows(_, _, _, _, _)
ReadRows(rows, i, start_date, end_date, data) ==
    IF i > Len(rows) THEN data
    ELSE LET o == RowOutcome(rows[i], start_date, end_date)
         IN  IF o = "abort" THEN data
             ELSE ReadRows(rows, i + 1, start_date, end_date,
                           IF o = "keep" THEN Append(data, ParseRow(rows[i]))
                           ELSE data)

\* read_csv_data(filepath, start_date, end_date) (lines 310-343).  The
\* first row of the file is what csv.DictReader takes as the field names:
\* unless it is the header, row["timestamp"] raises KeyError for every row.
read_csv_data(filepath, start_date, end_date) ==
    IF ~Exists(filepath) THEN <<>>
    ELSE LET rows == files[filepath]
         IN  IF Len(rows) = 0 \/ rows[1].kind # "header" THEN <<>>
             ELSE ReadRows(rows, 2, start_date, end_date, <<>>)


\* The first day of the month after that of date dt (lines 126-129).
NextMonth(dt) ==
    IF dt[2] = 12 THEN <<dt[1] + 1, 1, 1>> ELSE <<dt[1], dt[2] + 1, 1>>

InSeq(x, seq) == \E i \in 1 .. Len(seq) : seq[i] = x

\* MonthFiles as it would be if the loop stopped before the last month.
RECURSIVE MonthFilesBeforeEnd(_, _, _)
MonthFilesBeforeEnd(current, end_month, acc) ==
    IF DateKey(current) < DateKey(end_month)
    THEN LET filepath == <<current[1], current[2]>>
         IN  MonthFilesBeforeEnd(NextMonth(current), end_month,
                                 IF Exists(filepath) THEN Append(acc, filepath)
                                 ELSE acc)
    ELSE acc

\* The while loop of get_log_files_for_date_range (lines 121-129).
RECURSIVE MonthFiles(_, _, _)
MonthFiles(current, end_month, acc) ==
    IF DateKey(current) <= DateKey(end_month)
    THEN LET filepath == <<current[1], current[2]>>
         IN  MonthFiles(NextMonth(current), end_month,
                        IF Exists(filepath) THEN Append(acc, filepath)
                        ELSE acc)
    ELSE acc

\* get_log_files_for_date_range(start_date, end_date) (lines 113-136)
get_log_files_for_date_range(start_date, end_date) ==
    LET current == <<start_date[1], start_date[2], 1>>
        end_month == <<end_date[1], end_date[2], 1>>
        found == MonthFiles(current, end_month, <<>>)
    IN  IF log_file # NoPath /\ Exists(log_file) /\ ~InSeq(log_file, found)
        THEN Append(found, log_file)
        ELSE found

\* for filepath in files: data_points.extend(read_csv_data(...))
RECURSIVE ReadAll(_, _, _, _)
ReadAll(paths, i, start_date, end_date) ==
    IF i > Len(paths) THEN <<>>
    ELSE read_csv_data(paths[i], start_date, end_date)
         \o ReadAll(paths, i + 1, start_date, end_date)

\* The entries of historical_data of one date, copied (lines 880-883).
RECURSIVE OfDate(_, _, _)
OfDate(buf, i, target_date) ==
    IF i > Len(buf) THEN <<>>
    ELSE (IF DateOf(buf[i].timestamp) = target_date THEN <<buf[i]>>
          ELSE <<>>) \o OfDate(buf, i + 1, target_date)

\* list.sort(key=lambda x: x["timestamp"]): a stable sort, so samples of
\* equal timestamp keep the order they were collected in.
RECURSIVE InsertSorted(_, _)
InsertSorted(sorted, x) ==
    IF sorted = <<>> THEN <<x>>
    ELSE IF TsLeq(sorted[Len(sorted)].timestamp, x.timestamp)
         THEN Append(sorted, x)
         ELSE Append(InsertSorted(SubSeq(sorted, 1, Len(sorted) - 1), x),
                     sorted[Len(sorted)])

RECURSIVE SortFrom(_, _, _)
SortFrom(seq, i, sorted) ==
    IF i > Len(seq) THEN sorted
    ELSE SortFrom(seq, i + 1, InsertSorted(sorted, seq[i]))

SortByTimestamp(seq) == SortFrom(seq, 1, <<>>)

\* Lines 868-886 (also 785-801 and 395-411): the samples of target_date,
\* from the files if any is listed and from the buffer otherwise, sorted.
CollectDataPoints(target_date) ==
    LET listed == get_log_files_for_date_range(target_date, target_date)
        collected == IF listed # <<>>
                     THEN ReadAll(listed, 1, target_date, target_date)
                     ELSE OfDate(historical_data, 1, target_date)
    IN  [files |-> listed,
         source |-> IF listed # <<>> THEN "csv" ELSE "memory",
         collected |-> collected,
         data_points |-> SortByTimestamp(collected)]


(***************************************************************************)
(* The aggregation engine: calculate_daily_totals, calculate_hourly_totals.*)
(* Energies are accumulated in watt-seconds (1 kWh = 3 600 000 Ws); the    *)
(* rounded outputs are integers in the unit of their last decimal.         *)
(***************************************************************************)
Abs(x) == IF x < 0 THEN 0 - x ELSE x

\* round(n / d): to the nearest integer, a half to the even neighbour
RoundDiv(n, d) ==
    LET f == n \div d
        r == n % d
    IN  IF 2 * r < d THEN f
        ELSE IF 2 * r > d THEN f + 1
        ELSE IF f % 2 = 0 THEN f ELSE f + 1

\* Watt-seconds in 0.01 kWh, 0.001 kWh and 0.0001 kWh
WsPerCentiKwh == 36000
WsPerMilliKwh == 3600
WsPerTenthMilliKwh == 360

\* (t2 - t1).total_seconds(): the samples of one query share their date
IntervalSec(t1, t2) == t2.sod - t1.sod

EnergyFields == {"solar", "load", "grid_export", "grid_import",
                 "battery_charge", "battery_discharge"}

\* power x interval of one sample, per energy field (lines 915-920)
PairEnergy(current, interval_sec) ==
    [k \in EnergyFields |->
        (IF k = "grid_import" THEN Abs(current[k]) ELSE current[k])
        * interval_sec]

\* DailySkips as it would be with the gap test written >= 600.
DailySkipsAt600(interval_sec) == interval_sec <= 0 \/ interval_sec >= 600

\* if interval_sec <= 0 or interval_sec > 600: continue (line 909)
DailySkips(interval_sec) == interval_sec <= 0 \/ interval_sec > 600

ZeroEnergy == [k \in EnergyFields |-> 0]

\* The loop of calculate_daily_totals (lines 898-923).
RECURSIVE DailyWalk(_, _, _)
DailyWalk(data_points, i, acc) ==
    IF i > Len(data_points) - 1 THEN acc
    ELSE LET current == data_points[i]
             next_point == data_points[i + 1]
             interval_sec ==
                 IntervalSec(current.timestamp, next_point.timestamp)
             e == PairEnergy(current, interval_sec)
         IN  IF DailySkips(interval_sec)
             THEN DailyWalk(data_points, i + 1, acc)
             ELSE DailyWalk(data_points, i + 1,
                    [energy |-> [k \in EnergyFields |-> acc.energy[k] + e[k]],
                     total_interval_sec |->
                         acc.total_interval_sec + interval_sec,
                     interval_count |-> acc.interval_count + 1])

DailyAcc(data_points) ==
    DailyWalk(data_points, 1,
              [energy |-> ZeroEnergy, total_interval_sec |-> 0,
               interval_count |-> 0])

\* totals["count"] = len(data_points) (line 888)
DailyCount(data_points) == Len(data_points)

\* calculate_daily_totals (lines 856-866 and 888-937), given the sorted
\* data points: *_kwh in 0.01 kWh, avg_interval_sec in 0.1 s.
DailyTotalsOf(target_date, data_points) ==
    LET acc == DailyAcc(data_points)
        enough == ~(Len(data_points) < 2)
        kwh(k) == IF enough THEN RoundDiv(acc.energy[k], WsPerCentiKwh)
                  ELSE 0
    IN  [date |-> target_date,
         solar_kwh |-> kwh("solar"),
         load_kwh |-> kwh("load"),
         grid_export_kwh |-> kwh("grid_export"),
         grid_import_kwh |-> kwh("grid_import"),
         battery_charge_kwh |-> kwh("battery_charge"),
         battery_discharge_kwh |-> kwh("battery_discharge"),
         count |-> DailyCount(data_points),
         avg_interval_sec |->
            IF enough /\ acc.interval_count > 0
            THEN RoundDiv(acc.total_interval_sec * 10, acc.interval_count)
            ELSE 0]

calculate_daily_totals(target_date) ==
    DailyTotalsOf(target_date, CollectDataPoints(target_date).data_points)

Hours == 0 .. 23

\* if interval_sec <= 0 or interval_sec > 600: continue (line 817)
HourlySkips(interval_sec) == interval_sec <= 0 \/ interval_sec > 600

ZeroBucket == [energy |-> ZeroEnergy, count |-> 0]

\* BucketHour as it would be if the later sample chose the bucket.
BucketHourOfNext(current, next_point) == HourOf(next_point.timestamp)

\* hour = t1.hour (line 821): the bucket is that of the earlier sample
BucketHour(current, next_point) == HourOf(current.timestamp)

\* The loop of calculate_hourly_totals (lines 807-830): the buckets'
\* unrounded energies and counts.
RECURSIVE HourlyWalk(_, _, _)
HourlyWalk(data_points, i, hourly) ==
    IF i > Len(data_points) - 1 THEN hourly
    ELSE LET current == data_points[i]
             next_point == data_points[i + 1]
             interval_sec ==
                 IntervalSec(current.timestamp, next_point.timestamp)
             hour == BucketHour(current, next_point)
             e == PairEnergy(current, interval_sec)
         IN  IF HourlySkips(interval_sec)
             THEN HourlyWalk(data_points, i + 1, hourly)
             ELSE HourlyWalk(data_points, i + 1,
                    [hourly EXCEPT ![hour] =
                        [energy |-> [k \in EnergyFields |->
                                        hourly[hour].energy[k] + e[k]],
                         count |-> hourly[hour].count + 1]])

HourlyAcc(data_points) ==
    IF Len(data_points) < 2 THEN [h \in Hours |-> ZeroBucket]
    ELSE HourlyWalk(data_points, 1, [h \in Hours |-> ZeroBucket])

\* calculate_hourly_totals (lines 770-783 and 803-841), given the sorted
\* data points: 24 buckets, *_kwh in 0.001 kWh.
HourlyTotalsOf(data_points) ==
    LET acc == HourlyAcc(data_points)
    IN  [h \in Hours |->
            [hour |-> h,
             solar_kwh |-> RoundDiv(acc[h].energy["solar"], WsPerMilliKwh),
             load_kwh |-> RoundDiv(acc[h].energy["load"], WsPerMilliKwh),
             grid_export_kwh |->
                 RoundDiv(acc[h].energy["grid_export"], WsPerMilliKwh),
             grid_import_kwh |->
                 RoundDiv(acc[h].energy["grid_import"], WsPerMilliKwh),
             battery_charge_kwh |->
                 RoundDiv(acc[h].energy["battery_charge"], WsPerMilliKwh),
             battery_discharge_kwh |->
                 RoundDiv(acc[h].energy["battery_discharge"], WsPerMilliKwh),
             count |-> acc[h].count]]

calculate_hourly_totals(target_date) ==
    HourlyTotalsOf(CollectDataPoints(target_date).data_points)


(***************************************************************************)
(* The earnings engine: calculate_today_earnings.                          *)
(* Rates are integers in 0.003 $/kWh, so an energy in Ws times a rate is   *)
(* an amount in units of which MoneyDen make 0.0001 $.  An amount is kept  *)
(* exactly, as [e4, rem]: e4 times 0.0001 $ plus rem units.                *)
(***************************************************************************)
MoneyDen == 120000

\* 1.00 $, in 0.0001 $
zerohero_day_credit == 10000
zerohero_window_start == 18
zerohero_window_end == 20
\* 0.03 kWh and 10.0 kWh, in Ws
zerohero_import_threshold == 108000
super_export_limit == 36000000
super_export_rate == 50
fit_rate_peak == 10
fit_rate_shoulder == 1
fit_rate_offpeak == 0

ZeroMoney == [e4 |-> 0, rem |-> 0]
MoneyOf(n) == [e4 |-> n \div MoneyDen, rem |-> n % MoneyDen]
MoneyAdd(a, b) ==
    [e4 |-> a.e4 + b.e4 + ((a.rem + b.rem) \div MoneyDen),
     rem |-> (a.rem + b.rem) % MoneyDen]
\* round(amount, 4), in 0.0001 $
MoneyRound4(a) ==
    IF 2 * a.rem < MoneyDen THEN a.e4
    ELSE IF 2 * a.rem > MoneyDen THEN a.e4 + 1
    ELSE IF a.e4 % 2 = 0 THEN a.e4 ELSE a.e4 + 1

\* get_fit_period as it would be if hour 17 were not a peak hour.
get_fit_period_late_peak(hour) ==
    IF hour \in {16, 20} THEN <<"peak", fit_rate_peak>>
    ELSE IF 10 <= hour /\ hour < 14 THEN <<"offpeak", fit_rate_offpeak>>
    ELSE <<"shoulder", fit_rate_shoulder>>

\* get_fit_period(hour) (lines 349-365): the tier and its rate
get_fit_period(hour) ==
    IF hour \in {16, 17, 20} THEN <<"peak", fit_rate_peak>>
    ELSE IF 10 <= hour /\ hour < 14 THEN <<"offpeak", fit_rate_offpeak>>
    ELSE <<"shoulder", fit_rate_shoulder>>

\* EarningsSkips as it would be if a gap of exactly 600 s were skipped.
EarningsSkipsAt600(interval_sec) == interval_sec <= 0 \/ interval_sec >= 600

\* if interval_sec <= 0 or interval_sec > 600: continue (line 446)
EarningsSkips(interval_sec) == interval_sec <= 0 \/ interval_sec > 600

\* BeyondNow as it would be if no pair were skipped for its hour.
BeyondNowNever(is_today, hour, current_hour) == FALSE

\* if is_today and t1.hour >= current_hour: continue (line 440)
BeyondNow(is_today, hour, current_hour) == is_today /\ hour >= current_hour

\* The loop of lines 432-453: hourly_export and hourly_import in Ws (an
\* hour without an entry reads as 0), and the number of pairs retained.
RECURSIVE EarningsWalk(_, _, _, _, _)
EarningsWalk(data_points, i, is_today, current_hour, acc) ==
    IF i > Len(data_points) - 1 THEN acc
    ELSE LET curr == data_points[i]
             next_p == data_points[i + 1]
             interval_sec == IntervalSec(curr.timestamp, next_p.timestamp)
             hour == HourOf(curr.timestamp)
         IN  IF BeyondNow(is_today, hour, current_hour)
                \/ EarningsSkips(interval_sec)
             THEN EarningsWalk(data_points, i + 1, is_today, current_hour,
                               acc)
             ELSE EarningsWalk(data_points, i + 1, is_today, current_hour,
                    [hourly_export |->
                        [acc.hourly_export EXCEPT
                            ![hour] = @ + curr.grid_export * interval_sec],
                     hourly_import |->
                        [acc.hourly_import EXCEPT
                            ![hour] = @ + Abs(curr.grid_import) * interval_sec],
                     pairs |-> acc.pairs + 1])

EarningsAcc(data_points, is_today, current_hour) ==
    EarningsWalk(data_points, 1, is_today, current_hour,
                 [hourly_export |-> [h \in Hours |-> 0],
                  hourly_import |-> [h \in Hours |-> 0],
                  pairs |-> 0])

RECURSIVE SumOver(_, _)
SumOver(f, S) ==
    IF S = {} THEN 0
    ELSE LET x == CHOOSE y \in S : TRUE
         IN  f[x] + SumOver(f, S \ {x})

RECURSIVE MoneySum(_, _)
MoneySum(f, S) ==
    IF S = {} THEN ZeroMoney
    ELSE LET x == CHOOSE y \in S : TRUE
         IN  MoneyAdd(f[x], MoneySum(f, S \ {x}))

WindowHours == zerohero_window_start .. (zerohero_window_end - 1)

\* The report returned for fewer than 2 data points (lines 413-426).
InsufficientReport(target_date, data_points) ==
    [date |-> target_date,
     total_export_kwh |-> 0,
     zerohero_day |-> [qualified |-> FALSE, credit |-> 0,
                       reason |-> "Insufficient data"],
     super_export |-> [export_kwh |-> 0, earnings |-> 0],
     regular_fit |-> [export_kwh |-> 0, earnings |-> 0],
     total_earnings |-> 0,
     data_points |-> Len(data_points)]

\* ImportPassed as it would be if an import equal to the threshold failed.
ImportPassedBelow(import_kwh) == import_kwh < zerohero_import_threshold

\* passed = import_kwh <= cfg["zerohero_import_threshold"] (line 472)
ImportPassed(import_kwh) == import_kwh <= zerohero_import_threshold

\* Lines 455-527: the amounts before rounding.
EarningsParts(data_points, is_today, current_hour) ==
    LET acc == EarningsAcc(data_points, is_today, current_hour)
        zerohero_window_complete ==
            IF is_today THEN current_hour >= zerohero_window_end ELSE TRUE
        checked == {h \in WindowHours : ~(is_today /\ h >= current_hour)}
        hourly_check ==
            [h \in checked |->
                [import_kwh |-> RoundDiv(acc.hourly_import[h],
                                         WsPerTenthMilliKwh),
                 threshold |-> zerohero_import_threshold,
                 passed |-> ImportPassed(acc.hourly_import[h])]]
        zerohero_qualified == \A h \in checked : hourly_check[h].passed
        zerohero_status ==
            IF is_today /\ ~zerohero_window_complete THEN "pending"
            ELSE IF zerohero_qualified THEN "qualified"
            ELSE "not_qualified"
        zerohero_credit ==
            IF zerohero_status = "qualified" THEN zerohero_day_credit ELSE 0
        super_export_kwh == SumOver(acc.hourly_export, checked)
        super_export_credited == Min(super_export_kwh, super_export_limit)
        super_export_earnings ==
            MoneyOf(super_export_credited * super_export_rate)
        regular_hours ==
            {h \in Hours : /\ ~(zerohero_window_start <= h
                                /\ h < zerohero_window_end)
                           /\ ~(is_today /\ h >= current_hour)}
        regular_fit_kwh == SumOver(acc.hourly_export, regular_hours)
        regular_fit_earnings ==
            MoneySum([h \in Hours |->
                         MoneyOf(acc.hourly_export[h] * get_fit_period(h)[2])],
                     regular_hours)
        total_export == SumOver(acc.hourly_export, Hours)
    IN  [acc |-> acc,
         hourly_check |-> hourly_check,
         zerohero_status |-> zerohero_status,
         zerohero_credit |-> zerohero_credit,
         super_export_kwh |-> super_export_kwh,
         super_export_credited |-> super_export_credited,
         super_export_earnings |-> super_export_earnings,
         regular_fit_kwh |-> regular_fit_kwh,
         regular_fit_earnings |-> regular_fit_earnings,
         total_export |-> total_export,
         total_earnings |->
             MoneyAdd([e4 |-> zerohero_credit, rem |-> 0],
                      MoneyAdd(super_export_earnings, regular_fit_earnings))]

\* The report of lines 529-554: energies in 0.0001 kWh, amounts in
\* 0.0001 $ (the credit as configured, unrounded).
FullReport(target_date, data_points, is_today, current_hour) ==
    LET e == EarningsParts(data_points, is_today, current_hour)
    IN  [date |-> target_date,
         is_partial |-> is_today,
         current_hour |-> IF is_today THEN Some(current_hour) ELSE None,
         total_export_kwh |-> RoundDiv(e.total_export, WsPerTenthMilliKwh),
         zerohero_day |->
             [status |-> e.zerohero_status,
              qualified |-> e.zerohero_status = "qualified",
              credit |-> e.zerohero_credit,
              hourly_check |-> e.hourly_check],
         super_export |->
             [export_kwh |-> RoundDiv(e.super_export_kwh, WsPerTenthMilliKwh),
              credited_kwh |->
                  RoundDiv(e.super_export_credited, WsPerTenthMilliKwh),
              rate |-> super_export_rate,
              earnings |-> MoneyRound4(e.super_export_earnings)],
         regular_fit |->
             [export_kwh |-> RoundDiv(e.regular_fit_kwh, WsPerTenthMilliKwh),
              earnings |-> MoneyRound4(e.regular_fit_earnings)],
         total_earnings |-> MoneyRound4(e.total_earnings),
         data_points |-> Len(data_points)]

\* EarningsInsufficient as it would be if only an empty day were caught.
EarningsInsufficientIfEmpty(data_points) == Len(data_points) < 1

\* if len(data_points) < 2: (line 413)
EarningsInsufficient(data_points) == Len(data_points) < 2

\* calculate_today_earnings, given the sorted data points.
EarningsOf(target_date, data_points) ==
    LET is_today == target_date = DateOf(Now)
        current_hour == IF is_today THEN HourOf(Now) ELSE 24
    IN  IF EarningsInsufficient(data_points)
        THEN InsufficientReport(target_date, data_points)
        ELSE FullReport(target_date, data_points, is_today, current_hour)

calculate_today_earnings(target_date) ==
    EarningsOf(target_date, CollectDataPoints(target_date).data_points)


(***************************************************************************)
(* Queries, as single steps over a store and a buffer at rest: a request   *)
(* arrives, is answered in result, and leaves the store as it was.         *)
(***************************************************************************)
pollVars == <<history_size, current_data, data_lock, pc, cyc, pushed>>

Dates == {<<2024, 11, 30>>, <<2024, 12, 31>>, <<2025, 1, 1>>, <<2025, 2, 1>>}
DateRanges ==
    {r \in Dates \X Dates : DateKey(r[1]) <= DateKey(r[2])}

\* read_csv_data on one file of the store
ReadRange ==
    /\ result.op = "none"
    /\ \E filepath \in DOMAIN files, r \in DateRanges :
          result' = [op |-> "read", filepath |-> filepath,
                     start_date |-> r[1], end_date |-> r[2],
                     data |-> read_csv_data(filepath, r[1], r[2])]
    /\ UNCHANGED <<clock, log_file, historical_data, files, pollVars>>

\* get_log_files_for_date_range for a range
Enumerate ==
    /\ result.op = "none"
    /\ \E r \in DateRanges :
          result' = [op |-> "enumerate",
                     start_date |-> r[1], end_date |-> r[2],
                     files |-> get_log_files_for_date_range(r[1], r[2])]
    /\ UNCHANGED <<clock, log_file, historical_data, files, pollVars>>

\* get_daily -> calculate_daily_totals(target_date) (lines 677-688)
DailyQueryOn(dates) ==
    /\ result.op = "none"
    /\ \E target_date \in dates :
          LET c == CollectDataPoints(target_date)
          IN  result' = [op |-> "daily", target_date |-> target_date,
                         files |-> c.files, source |-> c.source,
                         collected |-> c.collected,
                         data_points |-> c.data_points,
                         acc |-> DailyAcc(c.data_points),
                         totals |-> calculate_daily_totals(target_date)]
    /\ UNCHANGED <<clock, log_file, historical_data, files, pollVars>>

\* get_hourly -> calculate_hourly_totals(target_date) (lines 736-760)
HourlyQueryOn(dates) ==
    /\ result.op = "none"
    /\ \E target_date \in dates :
          LET c == CollectDataPoints(target_date)
          IN  result' = [op |-> "hourly", target_date |-> target_date,
                         files |-> c.files, source |-> c.source,
                         collected |-> c.collected,
                         data_points |-> c.data_points,
                         acc |-> HourlyAcc(c.data_points),
                         hourly |-> calculate_hourly_totals(target_date)]
    /\ UNCHANGED <<clock, log_file, historical_data, files, pollVars>>

\* get_earnings -> calculate_today_earnings(target_date) (lines 968-986)
EarningsQueryOn(dates) ==
    /\ result.op = "none"
    /\ \E target_date \in dates :
          LET c == CollectDataPoints(target_date)
              is_today == target_date = DateOf(Now)
              current_hour == IF is_today THEN HourOf(Now) ELSE 24
          IN  result' = [op |-> "earnings", target_date |-> target_date,
                         files |-> c.files, source |-> c.source,
                         collected |-> c.collected,
                         data_points |-> c.data_points,
                         is_today |-> is_today,
                         current_hour |-> current_hour,
                         acc |-> EarningsAcc(c.data_points, is_today,
                                             current_hour),
                         report |-> calculate_today_earnings(target_date)]
    /\ UNCHANGED <<clock, log_file, historical_data, files, pollVars>>

RestPoller ==
    /\ history_size = MaxHist
    /\ current_data = InitialData
    /\ data_lock = "free"
    /\ pc = "read"
    /\ cyc = InitCyc
    /\ pushed = <<>>
    /\ result = NoResult

SeqsUpTo(S, n) == UNION {[1 .. k -> S] : k \in 0 .. n}

(***************************************************************************)
(* SpecRead: read_csv_data over every file of up to MaxRows rows drawn     *)
(* from well-formed rows of two dates, a row with a malformed timestamp,   *)
(* a row with a non-numeric field and a row cut short.                     *)
(***************************************************************************)
MaxRows == 3

Profile1 == [solar |-> 2000, load |-> 500, grid_export |-> 1500,
             grid_import |-> 0, battery_charge |-> 0,
             battery_discharge |-> 0, battery_net |-> 0,
             soc_inv |-> 80, soc_bms |-> 79]
Profile2 == [solar |-> 0, load |-> 1000, grid_export |-> 0,
             grid_import |-> 600, battery_charge |-> 0,
             battery_discharge |-> 400, battery_net |-> -400,
             soc_inv |-> 60, soc_bms |-> 59]

\* A sample: a profile's powers at a time of a date.
At(profile, dt, sod) ==
    [k \in DOMAIN profile \cup {"timestamp"} |->
        IF k = "timestamp"
        THEN [y |-> dt[1], m |-> dt[2], d |-> dt[3], sod |-> sod]
        ELSE profile[k]]

\* The row as a writer interrupted after the load cell leaves it.
CutShort(row) ==
    [row EXCEPT !.cells = [k \in NumFields |->
                             IF k \in {"solar", "load"} THEN row.cells[k]
                             ELSE NoCell]]

ReadRowChoices ==
    LET g1 == RowOf(At(Profile1, <<2025, 1, 1>>, 36000))
        g2 == RowOf(At(Profile2, <<2025, 1, 1>>, 36300))
        g3 == RowOf(At(Profile1, <<2025, 2, 1>>, 10))
    IN  { g1, g2, g3,
          [g1 EXCEPT !.timestamp = BadTsCell],
          [g2 EXCEPT !.cells["grid_import"] = BadText],
          CutShort(g2) }

InitRead ==
    /\ clock = 0
    /\ log_file = LegacyPath
    /\ historical_data = <<>>
    /\ \E rows \in SeqsUpTo(ReadRowChoices, MaxRows) :
          files = (<<2025, 1>> :> (<<HeaderRow>> \o rows))
    /\ RestPoller

NextRead == ReadRange

SpecRead == InitRead /\ [][NextRead]_vars

(***************************************************************************)
(* SpecEnum: get_log_files_for_date_range and its callers over every set   *)
(* of existing files among four months and the legacy file.                *)
(***************************************************************************)
EnumPaths == {<<2024, 11>>, <<2024, 12>>, <<2025, 1>>, <<2025, 2>>,
              LegacyPath}

EnumDaily == DailyQueryOn(Dates)

InitEnum ==
    /\ clock = 0
    /\ log_file \in {NoPath, LegacyPath, <<2024, 12>>}
    /\ historical_data = <<>>
    /\ \E S \in SUBSET EnumPaths : files = [p \in S |-> <<HeaderRow>>]
    /\ RestPoller

NextEnum ==
    \/ Enumerate
    \/ EnumDaily

SpecEnum == InitEnum /\ [][NextEnum]_vars

(***************************************************************************)
(* SpecAgg: the three aggregations over every collection of up to          *)
(* MaxSamples samples of one date, stored as rows of the month's file in   *)
(* any order or held by the buffer in push order, asked for at three       *)
(* instants: during the day, after the window, and on the next day.        *)
(***************************************************************************)
MaxSamples == 3

AggDate == <<2025, 1, 1>>
AggDates == {AggDate, <<2025, 2, 1>>}
\* 17:55:00, 18:00:00, 18:10:00 and 18:20:01
AggTimes == {64500, 64800, 65400, 66001}
AggSamples ==
    {At(pr, AggDate, sod) : pr \in {Profile1, Profile2}, sod \in AggTimes}
\* 2025-01-01T18:30:00, 2025-01-01T21:00:00 and 2025-01-02T00:00:00
AggClocks == {13322, 15122, 17282}

\* The buffer holds samples in push order: timestamps increase.
PushOrdered(buf) ==
    \A i \in 1 .. Len(buf) - 1 :
        TsLess(buf[i].timestamp, buf[i + 1].timestamp)

AsBuffered(sample) ==
    [k \in DOMAIN sample \cup {"connected"} |->
        IF k = "connected" THEN TRUE ELSE sample[k]]

AggDaily == DailyQueryOn(AggDates)
AggHourly == HourlyQueryOn(AggDates)
AggEarnings == EarningsQueryOn(AggDates)

InitAgg ==
    /\ clock \in AggClocks
    /\ log_file = LegacyPath
    /\ \E samples \in SeqsUpTo(AggSamples, MaxSamples) :
          \/ /\ files = (<<2025, 1>> :>
                            (<<HeaderRow>>
                             \o [i \in 1 .. Len(samples) |-> RowOf(samples[i])]))
             /\ historical_data = <<>>
          \/ /\ PushOrdered(samples)
             /\ files = <<>>
             /\ historical_data =
                    [i \in 1 .. Len(samples) |-> AsBuffered(samples[i])]
    /\ RestPoller

NextAgg ==
    \/ AggDaily
    \/ AggHourly
    \/ AggEarnings

SpecAgg == InitAgg /\ [][NextAgg]_vars

(***************************************************************************)
(* SpecEarn: calculate_today_earnings over every day of up to MaxSamples   *)
(* rows at six instants around the off-peak, shoulder, peak and window   *)
(* hours, with an export above the daily cap in one interval, an import    *)
(* at and just above the hourly threshold and an export of a few watts,    *)
(* asked for before, inside and after the window and on the next day.      *)
(***************************************************************************)
EarnProfile(grid_export, grid_import) ==
    [solar |-> grid_export, load |-> grid_import,
     grid_export |-> grid_export, grid_import |-> grid_import,
     battery_charge |-> 0, battery_discharge |-> 0, battery_net |-> 0,
     soc_inv |-> 50, soc_bms |-> 50]

\* export 70 kW, import 180 W, import 181 W, export 9 W
EarnProfiles == {EarnProfile(70000, 0), EarnProfile(0, 180),
                 EarnProfile(0, 181), EarnProfile(9, 0)}

\* 13:55, 14:00, 14:05, 17:50, 18:00 and 18:10
EarnTimes == {50100, 50400, 50700, 64200, 64800, 65400}

EarnSamples ==
    {At(pr, AggDate, sod) : pr \in EarnProfiles, sod \in EarnTimes}

\* 2025-01-01T18:30:00, T19:30:00, T21:00:00 and 2025-01-02T00:00:00
EarnClocks == {13322, 14042, 15122, 17282}

EarnQuery == EarningsQueryOn({AggDate})

InitEarn ==
    /\ clock \in EarnClocks
    /\ log_file = LegacyPath
    /\ historical_data = <<>>
    /\ \E samples \in SeqsUpTo(EarnSamples, MaxSamples) :
          /\ PushOrdered(samples)
          /\ files = (<<2025, 1>> :>
                         (<<HeaderRow>>
                          \o [i \in 1 .. Len(samples) |-> RowOf(samples[i])]))
    /\ RestPoller

NextEarn == EarnQuery

SpecEarn == InitEarn /\ [][NextEarn]_vars

(***************************************************************************)
(* SpecRange: get_daily_range and get_earnings_range, one date of the     *)
(* loop per step, over ranges that end before their start, on it, and 88  *)
(* to 91 days after it.                                                    *)
(***************************************************************************)
\* date.toordinal(), counted from the first day of the epoch's year
RECURSIVE DaysBeforeMonth(_, _)
DaysBeforeMonth(y, mo) ==
    IF mo = 1 THEN 0
    ELSE DaysBeforeMonth(y, mo - 1) + DaysInMonth(y, mo - 1)

RECURSIVE DaysBeforeYear(_)
DaysBeforeYear(y) ==
    IF y <= Epoch.y THEN 0
    ELSE DaysBeforeYear(y - 1) + (IF IsLeap(y - 1) THEN 366 ELSE 365)

toordinal(dt) == DaysBeforeYear(dt[1]) + DaysBeforeMonth(dt[1], dt[2]) + dt[3]

\* (end_date - start_date).days
DaysBetween(start_date, end_date) == toordinal(end_date) - toordinal(start_date)

\* current += timedelta(days=1)
NextDate(dt) ==
    DateOf(NextDay([y |-> dt[1], m |-> dt[2], d |-> dt[3], sod |-> 0]))

\* if (end_date - start_date).days > 90 (lines 718 and 1015)
max_range_days == 90

RangeStarts == {<<2025, 1, 1>>, <<2025, 1, 2>>}
RangeEnds == {<<2024, 12, 31>>, <<2025, 1, 1>>, <<2025, 1, 2>>,
              <<2025, 3, 31>>, <<2025, 4, 1>>, <<2025, 4, 2>>}
RangeKinds == {"daily", "earnings"}

\* Lines 702-722 and 1000-1020: the request is rejected with status 400
\* or the loop starts at start_date with no result yet.
RangeRequest ==
    /\ result.op = "none"
    /\ \E kind \in RangeKinds, start_date \in RangeStarts,
          end_date \in RangeEnds :
          result' =
              [op |-> "range", kind |-> kind,
               start_date |-> start_date, end_date |-> end_date,
               status |->
                   IF DateKey(end_date) < DateKey(start_date) THEN "400"
                   ELSE IF DaysBetween(start_date, end_date) > max_range_days
                        THEN "400"
                   ELSE "running",
               current |-> start_date,
               results |-> <<>>,
               total_earnings |-> 0]
    /\ UNCHANGED <<clock, log_file, historical_data, files, pollVars>>

\* One pass of the while loop (lines 723-726 and 1022-1026).
RangeStep ==
    /\ result.op = "range"
    /\ result.status = "running"
    /\ DateKey(result.current) <= DateKey(result.end_date)
    /\ LET computed ==
               IF result.kind = "daily"
               THEN calculate_daily_totals(result.current)
               ELSE calculate_today_earnings(result.current)
       IN  result' =
               [result EXCEPT
                   !.results = Append(@, computed),
                   !.total_earnings =
                       IF result.kind = "daily" THEN @
                       ELSE @ + computed.total_earnings,
                   !.current = NextDate(@)]
    /\ UNCHANGED <<clock, log_file, historical_data, files, pollVars>>

\* The loop is over: the response (lines 728-733 and 1028-1034).
RangeRespond ==
    /\ result.op = "range"
    /\ result.status = "running"
    /\ ~(DateKey(result.current) <= DateKey(result.end_date))
    /\ result' = [result EXCEPT !.status = "200"]
    /\ UNCHANGED <<clock, log_file, historical_data, files, pollVars>>

InitRange ==
    /\ clock \in {15122, 17282}
    /\ log_file = LegacyPath
    /\ historical_data = <<>>
    /\ files = (<<2025, 1>> :>
                   <<HeaderRow, RowOf(At(Profile1, AggDate, 64500)),
                     RowOf(At(Profile2, AggDate, 64800))>>)
    /\ RestPoller

NextRange ==
    \/ RangeRequest
    \/ RangeStep
    \/ RangeRespond

SpecRange == InitRange /\ [][NextRange]_vars

(***************************************************************************)
(* SpecHist: get_history and get_history_range over a buffer or a file of  *)
(* up to MaxData samples five minutes apart, for every limit up to         *)
(* MaxLimit (0: no limiting).                                              *)
(***************************************************************************)
MaxData == 6
MaxLimit == 4

\* data[::step]: the elements at offsets 0, step, 2 * step, ...
Stride(data, step) ==
    [i \in 1 .. ((Len(data) + step - 1) \div step) |->
        data[(i - 1) * step + 1]]

\* Lines 597-599 and 664-666: thinning to the limit, 0 being no limit.
Downsample(data, limit) ==
    IF limit # 0 /\ Len(data) > limit
    THEN Stride(data, Len(data) \div limit)
    ELSE data

\* data[:limit] if limit else data (line 648)
Truncate(data, limit) ==
    IF limit # 0 THEN SubSeq(data, 1, Min(limit, Len(data))) ELSE data

\* datetime.now() - timedelta(minutes=minutes), for a cutoff that stays
\* on the day of now
Cutoff(minutes) == [Now EXCEPT !.sod = @ - 60 * minutes]

\* Lines 592-594: the entries not older than the cutoff; 0 minutes (or no
\* minutes) filters nothing.
RECURSIVE Recent(_, _, _)
Recent(data, i, minutes) ==
    IF i > Len(data) THEN <<>>
    ELSE (IF minutes = 0 \/ TsLeq(Cutoff(minutes), data[i].timestamp)
          THEN <<data[i]>> ELSE <<>>) \o Recent(data, i + 1, minutes)

\* The entries of the buffer whose date lies in the range (lines 638-642).
RECURSIVE InRangeOf(_, _, _, _)
InRangeOf(buf, i, start_date, end_date) ==
    IF i > Len(buf) THEN <<>>
    ELSE (IF /\ DateKey(start_date) <= DateKey(DateOf(buf[i].timestamp))
             /\ DateKey(DateOf(buf[i].timestamp)) <= DateKey(end_date)
          THEN <<buf[i]>> ELSE <<>>)
         \o InRangeOf(buf, i + 1, start_date, end_date)

\* get_history (lines 582-604)
GetHistory ==
    /\ result.op = "none"
    /\ \E limit \in 0 .. MaxLimit, minutes \in {0, 10} :
          LET data == Downsample(Recent(historical_data, 1, minutes), limit)
          IN  result' = [op |-> "history", limit |-> limit,
                         minutes |-> minutes,
                         count |-> Len(data), data |-> data]
    /\ UNCHANGED <<clock, log_file, historical_data, files, pollVars>>

\* get_history_range (lines 607-674), for start_date <= end_date
GetHistoryRange ==
    /\ result.op = "none"
    /\ \E limit \in 0 .. MaxLimit,
          r \in {<<AggDate, AggDate>>, <<<<2024, 12, 31>>, AggDate>>} :
          LET listed == get_log_files_for_date_range(r[1], r[2])
              held == InRangeOf(historical_data, 1, r[1], r[2])
              all_data ==
                  Downsample(SortByTimestamp(ReadAll(listed, 1, r[1], r[2])),
                             limit)
          IN  result' =
                  IF listed = <<>>
                  THEN [op |-> "history_range", limit |-> limit,
                        start_date |-> r[1], end_date |-> r[2],
                        count |-> Len(held),
                        data |-> Truncate(held, limit),
                        source |-> "memory"]
                  ELSE [op |-> "history_range", limit |-> limit,
                        start_date |-> r[1], end_date |-> r[2],
                        count |-> Len(all_data),
                        data |-> all_data,
                        source |-> "csv"]
    /\ UNCHANGED <<clock, log_file, historical_data, files, pollVars>>

\* Sample i of the day: 17:55:00 and every five minutes after it.
HistSample(i) ==
    At(IF i % 2 = 1 THEN Profile1 ELSE Profile2, AggDate,
       64500 + 300 * (i - 1))

InitHist ==
    /\ clock = 13322
    /\ log_file = LegacyPath
    /\ \E n \in 0 .. MaxData :
          \/ /\ files = (<<2025, 1>> :>
                            (<<HeaderRow>>
                             \o [i \in 1 .. n |-> RowOf(HistSample(i))]))
             /\ historical_data = <<>>
          \/ /\ files = <<>>
             /\ historical_data = [i \in 1 .. n |-> AsBuffered(HistSample(i))]
    /\ RestPoller

NextHist ==
    \/ GetHistory
    \/ GetHistoryRange

SpecHist == InitHist /\ [][NextHist]_vars

(***************************************************************************)
(* SpecBattery: one poll cycle for every combination of readings of the    *)
(* four power registers, each missing or one of four values in 0.1 W.      *)
(***************************************************************************)
RawPowers == {0, 5, 10015, 25000}
RawLoads == {-5, 0, 10015, 25000}

BatteryReadings ==
    [pv_raw : {None} \cup {Some(v) : v \in RawPowers},
     grid_import_raw : {None} \cup {Some(v) : v \in RawPowers},
     grid_export_raw : {None} \cup {Some(v) : v \in RawPowers},
     load_raw : {None} \cup {Some(v) : v \in RawLoads},
     soc_inv : {Some(55)},
     soc_bms : {Some(54)}]

\* Lines 231-254, for the readings the registers give.
BatteryRead ==
    /\ pc = "read"
    /\ \E r \in BatteryReadings :
          cyc' = [InitCyc EXCEPT !.regs = r, !.timestamp = Now]
    /\ pc' = "lock"
    /\ UNCHANGED <<clock, history_size, log_file, current_data,
                   historical_data, data_lock, files, pushed, result>>

InitBattery == Init /\ history_size = MaxHist

NextBattery ==
    \/ BatteryRead
    \/ PollAcquire
    \/ PollUpdate
    \/ PollLogOk
    \/ PollLogFail
    \/ PollExcept

SpecBattery == InitBattery /\ [][NextBattery]_vars

(***************************************************************************)
(* SpecLegacy: the daily totals of a date over a store that holds the      *)
(* legacy file and, or not, the file of the date's month, each with up to  *)
(* MaxRows rows of two dates.                                              *)
(***************************************************************************)
LegacyRowChoices ==
    {RowOf(At(Profile1, AggDate, 64500)),
     RowOf(At(Profile2, AggDate, 64800)),
     RowOf(At(Profile1, <<2024, 12, 31>>, 64500))}

LegacyDaily == DailyQueryOn({AggDate, <<2024, 12, 31>>})

InitLegacy ==
    /\ clock = 17282
    /\ log_file = LegacyPath
    /\ historical_data = <<>>
    /\ \E old \in SeqsUpTo(LegacyRowChoices, MaxRows) :
          \/ files = (LegacyPath :> (<<HeaderRow>> \o old))
          \/ \E rows \in SeqsUpTo(LegacyRowChoices, MaxRows) :
                files = (LegacyPath :> (<<HeaderRow>> \o old))
                        @@ (<<2025, 1>> :> (<<HeaderRow>> \o rows))
    /\ RestPoller

NextLegacy == LegacyDaily

SpecLegacy == InitLegacy /\ [][NextLegacy]_vars

(***************************************************************************)
(* SpecFinal: the earnings of one date asked for again and again from      *)
(* 20:00:00 of the day on, while the clock advances and the writer appends *)
(* samples stamped with the clock to the month's file.                     *)
(***************************************************************************)
\* no flow, and an import of 5 kW
FinalProfiles == {EarnProfile(0, 0), EarnProfile(0, 5000)}

\* 19:50:00 and 19:55:00
FinalTimes == {71400, 71700}

\* 2025-01-01T20:00:00
FinalStart == 14402

\* One poll cycle whose append succeeds: a row stamped datetime.now().
FinalAppend ==
    /\ Len(files[<<2025, 1>>]) <= MaxRows
    /\ \E pr \in FinalProfiles :
          files' = log_to_csv(AsBuffered(At(pr, DateOf(Now), Now.sod)))
    /\ UNCHANGED <<clock, log_file, historical_data, result, pollVars>>

FinalTick ==
    /\ clock < FinalStart + MaxClock
    /\ clock' = clock + 1
    /\ UNCHANGED <<log_file, historical_data, files, result, pollVars>>

\* GET /api/earnings?date=2025-01-01, whatever was asked before
FinalQuery ==
    /\ result' = [op |-> "earnings", target_date |-> AggDate,
                  data_points |-> CollectDataPoints(AggDate).data_points,
                  report |-> calculate_today_earnings(AggDate)]
    /\ UNCHANGED <<clock, log_file, historical_data, files, pollVars>>

InitFinal ==
    /\ clock = FinalStart
    /\ log_file = LegacyPath
    /\ historical_data = <<>>
    /\ \E samples \in SeqsUpTo({At(pr, AggDate, sod) :
                                    pr \in FinalProfiles,
                                    sod \in FinalTimes}, 2) :
          /\ PushOrdered(samples)
          /\ files = (<<2025, 1>> :>
                         (<<HeaderRow>>
                          \o [i \in 1 .. Len(samples) |-> RowOf(samples[i])]))
    /\ RestPoller

NextFinal ==
    \/ FinalAppend
    \/ FinalTick
    \/ FinalQuery

SpecFinal == InitFinal /\ [][NextFinal]_vars

(***************************************************************************)
(* SpecConc: the polling thread and one request thread, interleaved at     *)
(* every statement that touches the shared state or the lock.  The update  *)
(* of lines 257-278 is taken statement by statement (the keys of           *)
(* current_data, the append, the eviction); result holds the frame of the  *)
(* request: its handler, its position and its locals.                      *)
(***************************************************************************)
\* Lock.acquire as it would be if it did not wait for the lock to be free.
AcquireWithoutWaiting(who) == data_lock' = who

\* with data_lock: on entry, Lock.acquire() blocks until the lock is free
Acquire(who) == data_lock = "free" /\ data_lock' = who

\* The readings of a cycle: every read timed out, or every read succeeded.
ConcReadings == {r \in Readings : IsNone(r.pv_raw) \/ ~IsNone(r.soc_bms)}

\* Lines 231-254, as PollRead.
ConcRead ==
    /\ pc = "read"
    /\ \E r \in ConcReadings :
          cyc' = [InitCyc EXCEPT !.regs = r, !.timestamp = Now]
    /\ pc' = "lock"
    /\ UNCHANGED <<clock, history_size, log_file, current_data,
                   historical_data, data_lock, files, pushed, result>>

\* Lines 258-270: current_data.update(...) sets the keys one after the
\* other: the first key, timestamp, ...
PollSetTimestamp ==
    /\ pc = "update"
    /\ current_data' = [current_data EXCEPT !.timestamp = cyc.timestamp]
    /\ pc' = "fields"
    /\ UNCHANGED <<clock, history_size, log_file, historical_data, data_lock,
                   files, cyc, pushed, result>>

\* ... then the other keys.
PollSetFields ==
    /\ pc = "fields"
    /\ current_data' = SampleOf(cyc.regs, cyc.timestamp)
    /\ pc' = "append"
    /\ UNCHANGED <<clock, history_size, log_file, historical_data, data_lock,
                   files, cyc, pushed, result>>

\* Line 273: historical_data.append(current_data.copy())
PollAppend ==
    /\ pc = "append"
    /\ historical_data' = Append(historical_data, current_data)
    /\ pushed' = Append(pushed, current_data)
    /\ pc' = "evict"
    /\ UNCHANGED <<clock, history_size, log_file, current_data, data_lock,
                   files, cyc, result>>

\* PollEvict as it would be if the append to the file were inside the
\* with block: the lock is still held when log_to_csv is called.
PollEvictHolding ==
    /\ pc = "evict"
    /\ historical_data' = IF Len(historical_data) > history_size
                          THEN Tail(historical_data) ELSE historical_data
    /\ cyc' = [cyc EXCEPT !.max_history = history_size]
    /\ pc' = "log"
    /\ UNCHANGED <<clock, history_size, log_file, current_data, data_lock,
                   files, pushed, result>>

\* Lines 276-278: the eviction, and the release at the end of the block.
PollEvict ==
    /\ pc = "evict"
    /\ historical_data' = IF Len(historical_data) > history_size
                          THEN Tail(historical_data) ELSE historical_data
    /\ cyc' = [cyc EXCEPT !.max_history = history_size]
    /\ data_lock' = "free"
    /\ pc' = "log"
    /\ UNCHANGED <<clock, history_size, log_file, current_data, files,
                   pushed, result>>

\* Where the request thread is: "idle" between two requests.
QueryAt == IF result.op = "none" THEN "idle" ELSE result.at

reqVars == <<clock, history_size, log_file, current_data, historical_data,
             files, pc, cyc, pushed>>

\* get_current (lines 575-579): with data_lock: ...
GetCurrentAcquire ==
    /\ QueryAt = "idle"
    /\ Acquire("query")
    /\ result' = [op |-> "current", at |-> "locked"]
    /\ UNCHANGED reqVars

\* ... return jsonify(current_data): serialised inside the block.
GetCurrentReturn ==
    /\ result.op = "current" /\ QueryAt = "locked"
    /\ result' = [op |-> "current", at |-> "done", data |-> current_data]
    /\ data_lock' = "free"
    /\ UNCHANGED reqVars

\* get_history (lines 582-604): with data_lock: ...
GetHistoryAcquire ==
    /\ QueryAt = "idle"
    /\ Acquire("query")
    /\ result' = [op |-> "history", at |-> "locked"]
    /\ UNCHANGED reqVars

\* ... data = historical_data.copy(), and the release.
GetHistoryCopy ==
    /\ result.op = "history" /\ QueryAt = "locked"
    /\ result' = [op |-> "history", at |-> "copied",
                  copy |-> historical_data]
    /\ data_lock' = "free"
    /\ UNCHANGED reqVars

\* Lines 591-604 with the default limit of 100 and no minutes.
GetHistoryReturn ==
    /\ result.op = "history" /\ QueryAt = "copied"
    /\ result' = [op |-> "history", at |-> "done", copy |-> result.copy,
                  data |-> Downsample(Recent(result.copy, 1, 0), 100)]
    /\ UNCHANGED <<data_lock, reqVars>>

\* calculate_daily_totals, line 872: the files of the date.
DailyFiles ==
    /\ QueryAt = "idle"
    /\ \E target_date \in {<<2024, 12, 31>>, <<2025, 1, 1>>} :
          LET listed == get_log_files_for_date_range(target_date, target_date)
          IN  result' = [op |-> "daily",
                         at |-> IF listed # <<>> THEN "read" ELSE "lock",
                         target_date |-> target_date, files |-> listed]
    /\ UNCHANGED <<data_lock, reqVars>>

\* Lines 874-877: the rows of the date are read from every file listed.
DailyRead ==
    /\ result.op = "daily" /\ QueryAt = "read"
    /\ result' = [op |-> "daily", at |-> "collected",
                  target_date |-> result.target_date, source |-> "csv",
                  data_points |-> ReadAll(result.files, 1, result.target_date,
                                          result.target_date)]
    /\ UNCHANGED <<data_lock, reqVars>>

\* Line 880: with data_lock: ...
DailyAcquire ==
    /\ result.op = "daily" /\ QueryAt = "lock"
    /\ Acquire("query")
    /\ result' = [result EXCEPT !.at = "locked"]
    /\ UNCHANGED reqVars

\* ... lines 881-883: the entries of the date are copied, and the release.
DailyCopy ==
    /\ result.op = "daily" /\ QueryAt = "locked"
    /\ result' = [op |-> "daily", at |-> "collected",
                  target_date |-> result.target_date, source |-> "memory",
                  data_points |-> OfDate(historical_data, 1,
                                         result.target_date)]
    /\ data_lock' = "free"
    /\ UNCHANGED reqVars

\* Lines 886-937: the sort and the aggregation.
DailyReturn ==
    /\ result.op = "daily" /\ QueryAt = "collected"
    /\ result' = [op |-> "daily", at |-> "done",
                  target_date |-> result.target_date,
                  source |-> result.source,
                  data_points |-> result.data_points,
                  totals |-> DailyTotalsOf(result.target_date,
                                SortByTimestamp(result.data_points))]
    /\ UNCHANGED <<data_lock, reqVars>>

\* The response is sent: the thread is free for the next request.
QueryDone ==
    /\ QueryAt = "done"
    /\ result' = NoResult
    /\ UNCHANGED <<data_lock, reqVars>>

InitConc ==
    /\ clock = 0
    /\ history_size \in HistSizes
    /\ log_file = LegacyPath
    /\ current_data = InitialData
    /\ historical_data = <<>>
    /\ data_lock = "free"
    /\ files = <<>>
    /\ pc = "read"
    /\ cyc = InitCyc
    /\ pushed = <<>>
    /\ result = NoResult

\* The statements of the polling thread that need no lock to be free.
PollerStep ==
    \/ ConcRead
    \/ PollSetTimestamp
    \/ PollSetFields
    \/ PollAppend
    \/ PollEvict
    \/ PollLogOk
    \/ PollLogFail
    \/ PollExcept
    \/ PollSleep

\* The statements of a request that follow its first.
QueryStep ==
    \/ GetCurrentReturn
    \/ GetHistoryCopy
    \/ GetHistoryReturn
    \/ DailyRead
    \/ DailyAcquire
    \/ DailyCopy
    \/ DailyReturn
    \/ QueryDone

NextConc ==
    \/ PollerStep
    \/ PollAcquire
    \/ GetCurrentAcquire
    \/ GetHistoryAcquire
    \/ DailyFiles
    \/ QueryStep

SpecConc == InitConc /\ [][NextConc]_vars

(***************************************************************************)
(* SpecLive: the polling thread, with a buffer of capacity 1, and the      *)
(* requests for the snapshot and for the buffer, under fair scheduling: a  *)
(* thread that can run does run; a thread waiting for the lock gets it if  *)
(* the lock is free again and again; a request that has arrived is served  *)
(* to its end, but none has to arrive.                                     *)
(***************************************************************************)
InitLive ==
    /\ InitConc
    /\ history_size = 1

LiveQueryStep ==
    \/ GetCurrentReturn
    \/ GetHistoryCopy
    \/ GetHistoryReturn
    \/ QueryDone

NextLive ==
    \/ PollerStep
    \/ PollAcquire
    \/ GetCurrentAcquire
    \/ GetHistoryAcquire
    \/ LiveQueryStep

SpecLive ==
    /\ InitLive
    /\ [][NextLive]_vars
    /\ WF_vars(PollerStep)
    /\ SF_vars(PollAcquire)
    /\ WF_vars(LiveQueryStep)


(***************************************************************************)
(* Properties of the polling cycle.                                        *)
(***************************************************************************)
\* The cycle's acquisition: failed when every register read timed out,
\* complete when every register read returned a value.
AcquisitionFailed == cyc.regs = AllNone
AcquisitionComplete ==
    \A k \in DOMAIN cyc.regs : ~IsNone(cyc.regs[k])
CycleStarted == cyc.timestamp # NoTs
CycleDone == pc = "sleep" /\ CycleStarted

\* C1: in a poll cycle whose acquisition failed (the register reads timed
\* out), no step of the cycle pushes to the buffer, appends a row to a
\* partition or changes the snapshot's measurement fields, and the cycle
\* ends with the snapshot marked disconnected.
C1_FailedPollLeavesData ==
    [][(AcquisitionFailed /\ CycleStarted /\ pc # "sleep") =>
          /\ historical_data' = historical_data
          /\ files' = files
          /\ Meas(current_data') = Meas(current_data)
          /\ (pc' = "sleep" => ~current_data'.connected)]_vars

\* C2: after every completed poll cycle, connected is false if the cycle's
\* acquisition failed and true if it succeeded, whatever the outcome of the
\* cycle's append to the partition.
C2_ConnectedIffAcquired ==
    CycleDone =>
        /\ (AcquisitionFailed => ~current_data.connected)
        /\ (AcquisitionComplete => current_data.connected)

TimestampsOf(buf) == {buf[i].timestamp : i \in 1 .. Len(buf)}
Occurrences(buf, ts) ==
    Cardinality({i \in 1 .. Len(buf) : buf[i].timestamp = ts})

\* C3: once the append of a cycle's sample has failed with an I/O error,
\* the sample is in the recent-history buffer exactly once, as its newest
\* entry, and the snapshot holds the sample's values; no sample is ever in
\* the buffer twice.
C3_WriteFailureKeepsUpdate ==
    /\ cyc.log = "failed" =>
          LET sample == SampleOf(cyc.regs, cyc.timestamp)
          IN  /\ Occurrences(historical_data, cyc.timestamp) = 1
              /\ historical_data[Len(historical_data)] = sample
              /\ Meas(current_data) = Meas(sample)
    /\ Cardinality(TimestampsOf(historical_data)) = Len(historical_data)

\* A write failure in a cycle after the first, handled.
C3_Witness ==
    /\ pc = "sleep"
    /\ cyc.log = "failed"
    /\ AcquisitionComplete
    /\ current_data.solar > 0
    /\ Len(historical_data) = 2
    /\ ~current_data.connected

LastN(seq, n) == SubSeq(seq, Len(seq) - n + 1, Len(seq))

\* C4: when a push has completed and the lock is free, the buffer holds at
\* most history_size samples (the value the push read), and they are the
\* most recently pushed samples in push order.
C4_BufferHoldsLastN ==
    (pc = "log" /\ data_lock = "free") =>
        /\ Len(historical_data) <= cyc.max_history
        /\ historical_data = LastN(pushed, Len(historical_data))

\* C5: every data row of a partition carries a timestamp of the
\* partition's own (year, month).
C5_RowInPartitionOfTimestamp ==
    \A p \in DOMAIN files :
        \A i \in 1 .. Len(files[p]) :
            files[p][i].kind = "row" =>
                get_monthly_log_file(files[p][i].timestamp.ts) = p

(***************************************************************************)
(* Properties of the store's read path.                                    *)
(***************************************************************************)
WellFormed(row) ==
    /\ row.kind = "row"
    /\ row.timestamp.tag = "ts"
    /\ \A k \in NumFields : row.cells[k].tag = "num"

DateWithin(dt, start_date, end_date) ==
    DateKey(start_date) <= DateKey(dt) /\ DateKey(dt) <= DateKey(end_date)

\* C6: a read of a partition returns, in file order, exactly the
\* well-formed rows whose date lies in [start_date, end_date]; a row that
\* does not parse is skipped wherever it stands in the file.
C6_ReadReturnsWellFormedRows ==
    result.op = "read" =>
        LET rows == Tail(files[result.filepath])
            Keep(row) ==
                /\ WellFormed(row)
                /\ DateWithin(DateOf(row.timestamp.ts), result.start_date,
                              result.end_date)
            kept == SelectSeq(rows, Keep)
        IN  /\ Len(result.data) = Len(kept)
            /\ \A i \in 1 .. Len(kept) : result.data[i] = ParseRow(kept[i])

IsMonthly(p) == p[1] > 0
MonthIdx(p) == p[1] * 12 + p[2]
MonthsWithin(start_date, end_date) ==
    {p \in DOMAIN files :
        /\ IsMonthly(p)
        /\ MonthIdx(start_date) <= MonthIdx(p)
        /\ MonthIdx(p) <= MonthIdx(end_date)}
LegacyExists == log_file # NoPath /\ Exists(log_file)

EnumeratesExactly(listed, start_date, end_date) ==
    LET M == MonthsWithin(start_date, end_date)
        n == Cardinality(M)
        legacy == LegacyExists /\ log_file \notin M
    IN  /\ Len(listed) = n + (IF legacy THEN 1 ELSE 0)
        /\ {listed[i] : i \in 1 .. n} = M
        /\ \A i, j \in 1 .. n :
              i < j => MonthIdx(listed[i]) < MonthIdx(listed[j])
        /\ legacy => listed[n + 1] = log_file
        /\ (listed = <<>>) <=> (M = {} /\ ~LegacyExists)

\* C7: for start <= end the enumeration lists exactly the existing
\* monthly partitions of the months from start's to end's, each once, in
\* chronological order, then the legacy file if it exists and is not
\* listed yet; it is empty exactly when none of these files exists, and
\* exactly then a caller reads the recent-history buffer.
C7_EnumeratesExistingPartitions ==
    /\ result.op = "enumerate" =>
          EnumeratesExactly(result.files, result.start_date, result.end_date)
    /\ result.op = "daily" =>
          /\ EnumeratesExactly(result.files, result.target_date,
                               result.target_date)
          /\ (result.source = "memory") <=>
                /\ MonthsWithin(result.target_date, result.target_date) = {}
                /\ ~LegacyExists

\* A range from November to January over a store without the November
\* file: December, January, then the legacy file.
C7_Witness ==
    /\ result.op = "enumerate"
    /\ result.start_date = <<2024, 11, 30>>
    /\ result.end_date = <<2025, 1, 1>>
    /\ Exists(<<2025, 2>>)
    /\ result.files = << <<2024, 12>>, <<2025, 1>>, LegacyPath >>

(***************************************************************************)
(* Properties of the aggregation and earnings engines.                     *)
(***************************************************************************)
\* The seconds between sorted sample i and its successor.
PairDt(dp, i) == dp[i + 1].timestamp.sod - dp[i].timestamp.sod
PairHour(dp, i) == dp[i].timestamp.sod \div 3600
PairPower(dp, i, k) ==
    IF k = "grid_import" THEN Abs(dp[i][k]) ELSE dp[i][k]

\* The pairs the gap rule keeps: 0 < dt <= 600, none from 601 on.
GapRulePairs(dp) ==
    {i \in 1 .. Len(dp) - 1 :
        /\ 0 < PairDt(dp, i)
        /\ PairDt(dp, i) <= 600
        /\ ~(PairDt(dp, i) >= 601)}

RECURSIVE EnergyOfPairs(_, _, _)
EnergyOfPairs(dp, I, k) ==
    IF I = {} THEN 0
    ELSE LET i == CHOOSE j \in I : TRUE
         IN  PairPower(dp, i, k) * PairDt(dp, i)
             + EnergyOfPairs(dp, I \ {i}, k)

InHour(dp, I, h) == {i \in I : PairHour(dp, i) = h}

DailyUsesPairs(I) ==
    /\ result.acc.interval_count = Cardinality(I)
    /\ \A k \in EnergyFields :
          result.acc.energy[k] = EnergyOfPairs(result.data_points, I, k)

HourlyUsesPairs(I) ==
    \A h \in Hours :
        /\ result.acc[h].count = Cardinality(InHour(result.data_points, I, h))
        /\ \A k \in EnergyFields :
              result.acc[h].energy[k] =
                  EnergyOfPairs(result.data_points,
                                InHour(result.data_points, I, h), k)

EarningsUsesPairs(I) ==
    /\ result.acc.pairs = Cardinality(I)
    /\ \A h \in Hours :
          /\ result.acc.hourly_export[h] =
                EnergyOfPairs(result.data_points,
                              InHour(result.data_points, I, h), "grid_export")
          /\ result.acc.hourly_import[h] =
                EnergyOfPairs(result.data_points,
                              InHour(result.data_points, I, h), "grid_import")

\* C8 as stated: in daily, hourly and earnings aggregation alike, a
\* consecutive pair of the sorted samples is retained, and adds its
\* energy, if and only if 0 < dt <= 600.
C8_GapRuleAlike ==
    /\ result.op = "daily" => DailyUsesPairs(GapRulePairs(result.data_points))
    /\ result.op = "hourly" =>
          HourlyUsesPairs(GapRulePairs(result.data_points))
    /\ result.op = "earnings" =>
          EarningsUsesPairs(GapRulePairs(result.data_points))

\* The pairs of the gap rule that start in an hour the earnings count:
\* any hour of a past date, an hour below the current hour today.
ElapsedGapRulePairs(dp, is_today, current_hour) ==
    {i \in GapRulePairs(dp) : ~(is_today /\ PairHour(dp, i) >= current_hour)}

\* C8, amended: daily and hourly aggregation retain a pair if and only if
\* 0 < dt <= 600; the earnings retain it if and only if 0 < dt <= 600 and,
\* when the date is today, the pair starts in an hour below the current
\* hour.
C8_GapRuleAmended ==
    /\ result.op = "daily" => DailyUsesPairs(GapRulePairs(result.data_points))
    /\ result.op = "hourly" =>
          HourlyUsesPairs(GapRulePairs(result.data_points))
    /\ result.op = "earnings" =>
          EarningsUsesPairs(ElapsedGapRulePairs(result.data_points,
                                                result.is_today,
                                                result.current_hour))

\* Earnings asked for during the day over three samples 600 s and 601 s
\* apart: the first pair is retained, the second is not.
C8_Witness ==
    /\ result.op = "earnings"
    /\ result.is_today
    /\ Len(result.data_points) = 3
    /\ PairDt(result.data_points, 1) = 600
    /\ PairDt(result.data_points, 2) = 601
    /\ result.acc.pairs = 1
    /\ result.acc.hourly_export[18] > 0

PermSeqs(seq) ==
    {[i \in 1 .. Len(seq) |-> seq[p[i]]] :
        p \in Permutations(1 .. Len(seq))}

\* C9: the daily totals, the hourly totals and the earnings of a date are
\* the same for every order in which its samples are supplied.
C9_OrderIndependent ==
    /\ result.op = "daily" =>
          \A s \in PermSeqs(result.collected) :
              DailyTotalsOf(result.target_date, SortByTimestamp(s))
                  = result.totals
    /\ result.op = "hourly" =>
          \A s \in PermSeqs(result.collected) :
              HourlyTotalsOf(SortByTimestamp(s)) = result.hourly
    /\ result.op = "earnings" =>
          \A s \in PermSeqs(result.collected) :
              EarningsOf(result.target_date, SortByTimestamp(s))
                  = result.report

\* The samples of a date the store holds: the rows of that date in the
\* month's file if it exists, the buffer's entries of that date otherwise.
SamplesFound(dt) ==
    LET p == <<dt[1], dt[2]>>
    IN  IF Exists(p)
        THEN Cardinality({i \in 2 .. Len(files[p]) :
                /\ WellFormed(files[p][i])
                /\ DateOf(files[p][i].timestamp.ts) = dt})
        ELSE Cardinality({i \in 1 .. Len(historical_data) :
                DateOf(historical_data[i].timestamp) = dt})

\* C10: for a date with 0 or 1 samples every daily energy total, every
\* hourly bucket and every monetary field of the earnings report is 0, and
\* the reported sample count is the number of samples found.
C10_FewSamplesGiveZeros ==
    (/\ result.op \in {"daily", "hourly", "earnings"}
     /\ SamplesFound(result.target_date) <= 1) =>
        /\ result.op = "daily" =>
              /\ result.totals.solar_kwh = 0
              /\ result.totals.load_kwh = 0
              /\ result.totals.grid_export_kwh = 0
              /\ result.totals.grid_import_kwh = 0
              /\ result.totals.battery_charge_kwh = 0
              /\ result.totals.battery_discharge_kwh = 0
              /\ result.totals.count = SamplesFound(result.target_date)
        /\ result.op = "hourly" =>
              /\ DOMAIN result.hourly = 0 .. 23
              /\ \A h \in 0 .. 23 :
                    /\ result.hourly[h].solar_kwh = 0
                    /\ result.hourly[h].load_kwh = 0
                    /\ result.hourly[h].grid_export_kwh = 0
                    /\ result.hourly[h].grid_import_kwh = 0
                    /\ result.hourly[h].battery_charge_kwh = 0
                    /\ result.hourly[h].battery_discharge_kwh = 0
        /\ result.op = "earnings" =>
              /\ result.report.total_export_kwh = 0
              /\ result.report.zerohero_day.credit = 0
              /\ result.report.super_export.earnings = 0
              /\ result.report.regular_fit.earnings = 0
              /\ result.report.total_earnings = 0
              /\ result.report.data_points = SamplesFound(result.target_date)

\* Earnings of a past date that has a single, exporting sample.
C10_Witness ==
    /\ result.op = "earnings"
    /\ ~result.is_today
    /\ SamplesFound(result.target_date) = 1
    /\ result.data_points[1].grid_export > 0
    /\ result.report.data_points = 1

(***************************************************************************)
(* Properties of the earnings report.                                      *)
(***************************************************************************)
\* The import energy of hour h, in Ws: that of the pairs the gap rule
\* keeps which start in h.
HourImport(dp, h) ==
    EnergyOfPairs(dp, InHour(dp, GapRulePairs(dp), h), "grid_import")
HourExport(dp, h) ==
    EnergyOfPairs(dp, InHour(dp, GapRulePairs(dp), h), "grid_export")

FromTwoSamples == result.op = "earnings" /\ Len(result.data_points) >= 2

\* C11: a report computed from at least 2 samples is pending if and only
\* if the date is today and the hour is below the window end; otherwise it
\* is qualified if every window hour imported at most the threshold
\* (equality passes) and not_qualified if some window hour imported more;
\* the credit is the configured amount exactly when qualified, 0
\* otherwise, and a past date is never pending.
C11_CreditStatus ==
    FromTwoSamples =>
        LET zh == result.report.zerohero_day
            pending == result.is_today /\ result.current_hour < 20
            within == \A h \in 18 .. 19 :
                         HourImport(result.data_points, h) <= 108000
        IN  /\ zh.status \in {"pending", "qualified", "not_qualified"}
            /\ (zh.status = "pending") <=> pending
            /\ ~pending => ((zh.status = "qualified") <=> within)
            /\ ~pending => ((zh.status = "not_qualified") <=> ~within)
            /\ zh.credit = IF zh.status = "qualified" THEN 10000 ELSE 0
            /\ zh.qualified <=> (zh.status = "qualified")
            /\ ~result.is_today => zh.status # "pending"

\* After the window, a day whose hour 18 imported exactly the threshold
\* (180 W over 600 s, 0.03 kWh) is qualified and credited.
C11_Witness ==
    /\ FromTwoSamples
    /\ result.is_today
    /\ result.current_hour = 21
    /\ HourImport(result.data_points, 18) = 108000
    /\ result.report.zerohero_day.status = "qualified"
    /\ result.report.zerohero_day.credit = 10000

\* C12: in every earnings report the reported values satisfy
\* total_earnings = zerohero_day.credit + super_export.earnings
\* + regular_fit.earnings exactly, each field taken as reported, after
\* its rounding to 4 decimals.
C12_TotalIsSumOfReported ==
    result.op = "earnings" =>
        result.report.total_earnings =
            result.report.zerohero_day.credit
            + result.report.super_export.earnings
            + result.report.regular_fit.earnings

(***************************************************************************)
(* Properties of the range requests.                                       *)
(***************************************************************************)
\* The number of dates from start_date to end_date, both included.
DatesSpanned(start_date, end_date) ==
    toordinal(end_date) - toordinal(start_date) + 1

\* C13: a daily or earnings range request whose end is before its start,
\* or which spans more than 90 days (91 days included), is rejected
\* without a single per-date computation, so that no request computes
\* results for more than 90 dates.
C13_RangeCapRejects ==
    result.op = "range" =>
        /\ (\/ DateKey(result.end_date) < DateKey(result.start_date)
            \/ DatesSpanned(result.start_date, result.end_date) > 90) =>
               /\ result.status = "400"
               /\ result.results = <<>>
        /\ Len(result.results) <= 90

(***************************************************************************)
(* Properties of the history queries.                                      *)
(***************************************************************************)
\* C14: a recent-history or date-range history query with a positive
\* limit never returns more elements than the limit, whatever the size
\* of the result set.
C14_LimitRespected ==
    (/\ result.op \in {"history", "history_range"}
     /\ result.limit > 0) =>
        Len(result.data) <= result.limit

(***************************************************************************)
(* Properties of the fields of a row read.                                 *)
(***************************************************************************)
\* The sample of a row whose numeric cells that are missing or are not
\* numbers read as 0.
DefaultedRow(row) ==
    [k \in NumFields \cup {"timestamp"} |->
        IF k = "timestamp" THEN row.timestamp.ts
        ELSE IF row.cells[k].tag = "num" THEN row.cells[k].v
        ELSE 0]

\* C15: on read, a row with a valid timestamp whose numeric field is
\* missing or is not a number is returned as a sample with that field 0;
\* the row is not dropped because of that field.
C15_BadFieldReadsAsZero ==
    result.op = "read" =>
        LET rows == Tail(files[result.filepath])
            Keep(row) ==
                /\ row.kind = "row"
                /\ row.timestamp.tag = "ts"
                /\ DateWithin(DateOf(row.timestamp.ts), result.start_date,
                              result.end_date)
            kept == SelectSeq(rows, Keep)
        IN  /\ Len(result.data) = Len(kept)
            /\ \A i \in 1 .. Len(kept) :
                  result.data[i] = DefaultedRow(kept[i])

(***************************************************************************)
(* Daily totals against hourly totals.                                     *)
(***************************************************************************)
KwhName == [solar |-> "solar_kwh", load |-> "load_kwh",
            grid_export |-> "grid_export_kwh",
            grid_import |-> "grid_import_kwh",
            battery_charge |-> "battery_charge_kwh",
            battery_discharge |-> "battery_discharge_kwh"]

\* The sum over the 24 hours of the values f[h]
SumHours(f) == SumOver(f, Hours)

\* C16 as stated: each daily energy total equals the sum of the
\* corresponding values of the 24 hourly buckets of the date (the daily
\* value, in 0.01 kWh, against the hourly values, in 0.001 kWh), and the
\* pairs retained by the daily computation number the sum of the hourly
\* counts.
C16_DailyIsSumOfHourly ==
    result.op = "daily" =>
        LET hourly == HourlyTotalsOf(result.data_points)
        IN  /\ \A k \in EnergyFields :
                  10 * result.totals[KwhName[k]]
                      = SumHours([h \in Hours |-> hourly[h][KwhName[k]]])
            /\ result.acc.interval_count
                  = SumHours([h \in Hours |-> hourly[h].count])

\* C16, amended: before rounding, each daily energy is the sum of the 24
\* hourly energies and the daily computation retains as many pairs as the
\* hourly counts add up to; the daily value reported is that energy
\* rounded to 0.01 kWh and each hourly value its hour's energy rounded to
\* 0.001 kWh, so the reported daily total is within 0.017 kWh of the sum
\* of the reported hourly values.
C16_DailyIsSumBeforeRounding ==
    result.op = "daily" =>
        LET hacc == HourlyAcc(result.data_points)
            hourly == HourlyTotalsOf(result.data_points)
        IN  /\ \A k \in EnergyFields :
                  /\ result.acc.energy[k]
                        = SumHours([h \in Hours |-> hacc[h].energy[k]])
                  /\ Len(result.data_points) >= 2 =>
                        result.totals[KwhName[k]]
                            = RoundDiv(result.acc.energy[k], 36000)
                  /\ \A h \in Hours :
                        hourly[h][KwhName[k]]
                            = RoundDiv(hacc[h].energy[k], 3600)
                  /\ Abs(10 * result.totals[KwhName[k]]
                         - SumHours([h \in Hours |-> hourly[h][KwhName[k]]]))
                        <= 17
            /\ result.acc.interval_count
                  = SumHours([h \in Hours |-> hourly[h].count])

\* A day with a retained pair in hour 17 and one in hour 18, whose
\* reported daily solar total is not the sum of the reported hourly ones.
C16_Witness ==
    /\ result.op = "daily"
    /\ result.acc.interval_count = 2
    /\ HourlyTotalsOf(result.data_points)[17].count = 1
    /\ HourlyTotalsOf(result.data_points)[18].count = 1
    /\ 10 * result.totals.solar_kwh
          # SumHours([h \in Hours |->
                         HourlyTotalsOf(result.data_points)[h].solar_kwh])

(***************************************************************************)
(* Properties of the battery fields of a sample.                           *)
(***************************************************************************)
BatteryConsistent(battery_charge, battery_discharge, battery_net) ==
    /\ battery_charge >= 0
    /\ battery_discharge >= 0
    /\ battery_charge * battery_discharge = 0
    /\ battery_net = battery_charge - battery_discharge

\* C17: every sample a poll cycle produces, as stored in the current
\* snapshot, in the buffer and in the appended row, has battery_charge
\* >= 0, battery_discharge >= 0, battery_charge x battery_discharge = 0
\* and battery_net = battery_charge - battery_discharge, for every
\* combination of solar, load, grid import and grid export readings.
C17_BatteryFieldsConsistent ==
    /\ BatteryConsistent(current_data.battery_charge,
                         current_data.battery_discharge,
                         current_data.battery_net)
    /\ \A i \in 1 .. Len(historical_data) :
          BatteryConsistent(historical_data[i].battery_charge,
                            historical_data[i].battery_discharge,
                            historical_data[i].battery_net)
    /\ \A p \in DOMAIN files : \A i \in 1 .. Len(files[p]) :
          files[p][i].kind = "row" =>
              BatteryConsistent(files[p][i].cells["battery_charge"].v,
                                files[p][i].cells["battery_discharge"].v,
                                files[p][i].cells["battery_net"].v)

\* A cycle done whose balance is -1001.5 W, a tie of the rounding: the
\* snapshot, the buffer and the row hold a discharge of 1002 W.
C17_Witness ==
    /\ pc = "sleep"
    /\ cyc.log = "ok"
    /\ OrZero(cyc.regs.pv_raw) + OrZero(cyc.regs.grid_import_raw)
          - OrZero(cyc.regs.grid_export_raw) - OrZero(cyc.regs.load_raw)
          = -10015
    /\ current_data.battery_discharge = 1002
    /\ current_data.battery_net = -1002
    /\ Len(historical_data) = 1
    /\ historical_data[1].battery_discharge = 1002
    /\ \E p \in DOMAIN files :
          files[p][Len(files[p])].cells["battery_discharge"].v = 1002

(***************************************************************************)
(* Properties of the integration of a pair.                                *)
(***************************************************************************)
\* The energy, in Ws, the pair (dp[i], dp[i+1]) adds to field k: the power
\* of the earlier sample over the interval, the import in absolute value.
EarlierPowerEnergy(dp, i, k) ==
    (IF k = "grid_import" THEN Abs(dp[i].grid_import) ELSE dp[i][k])
        * (dp[i + 1].timestamp.sod - dp[i].timestamp.sod)

RECURSIVE SumEarlier(_, _, _)
SumEarlier(dp, I, k) ==
    IF I = {} THEN 0
    ELSE LET i == CHOOSE j \in I : TRUE
         IN  EarlierPowerEnergy(dp, i, k) + SumEarlier(dp, I \ {i}, k)

\* C18: each retained pair (s[i], s[i+1]) adds power(s[i]) x dt / 3600
\* kWh, with the power of s[i] and never that of s[i+1], to each of the
\* six energy fields (the grid import in absolute value), all of it to the
\* hour bucket of s[i] even when s[i+1] lies in the next hour; two samples
\* 300 s apart with 2.0 kW solar at the first yield 0.1667 kWh (600 000
\* Ws), reported as 0.167 by the hourly totals.
C18_EarlierPowerToItsHour ==
    result.op = "hourly" =>
        LET dp == result.data_points
            R == GapRulePairs(dp)
        IN  /\ \A h \in Hours : \A k \in EnergyFields :
                  /\ result.acc[h].energy[k] =
                        SumEarlier(dp, {i \in R : HourOf(dp[i].timestamp) = h},
                                   k)
                  /\ result.hourly[h][KwhName[k]] =
                        RoundDiv(result.acc[h].energy[k], 3600)
            /\ (/\ Len(dp) = 2
                /\ dp[2].timestamp.sod - dp[1].timestamp.sod = 300
                /\ dp[1].solar = 2000) =>
                   LET h == HourOf(dp[1].timestamp)
                   IN  /\ result.acc[h].energy["solar"] = 600000
                       /\ RoundDiv(result.acc[h].energy["solar"], 360) = 1667
                       /\ result.hourly[h].solar_kwh = 167
                       /\ \A g \in Hours \ {h} : result.hourly[g].solar_kwh = 0

\* 17:55:00 with 2.0 kW solar, then 18:00:00 without: the 0.1667 kWh go to
\* hour 17 and nothing to hour 18, where the later sample lies.
C18_Witness ==
    /\ result.op = "hourly"
    /\ Len(result.data_points) = 2
    /\ result.data_points[1].timestamp.sod = 64500
    /\ result.data_points[1].solar = 2000
    /\ result.data_points[2].timestamp.sod = 64800
    /\ result.data_points[2].solar = 0
    /\ result.acc[17].energy["solar"] = 600000
    /\ result.hourly[17].solar_kwh = 167
    /\ result.hourly[18].solar_kwh = 0

(***************************************************************************)
(* Properties of the export earnings.  Amounts are in 0.0001 $: at 0.15    *)
(* $/kWh an energy of 2400 Ws is worth one, at 0.03 $/kWh 12000 Ws and at  *)
(* 0.003 $/kWh 120000 Ws.                                                  *)
(***************************************************************************)
\* The hours of the day that have fully elapsed for the report.
ElapsedHours == {h \in 0 .. 23 : ~result.is_today \/ h < result.current_hour}

RECURSIVE ExportOver(_, _)
ExportOver(dp, H) ==
    IF H = {} THEN 0
    ELSE LET h == CHOOSE g \in H : TRUE
         IN  HourExport(dp, h) + ExportOver(dp, H \ {h})

\* C19: the premium export energy of a report is the sum of the export
\* energy of the window hours that have fully elapsed (all of them on a
\* complete day), the credited energy is the smaller of that sum and the
\* daily cap of 10 kWh, and the premium earnings are the credited energy
\* at the premium rate: export above the cap earns nothing.
C19_PremiumExport ==
    FromTwoSamples =>
        LET premium == ExportOver(result.data_points,
                                  ElapsedHours \cap {18, 19})
            credited == IF premium <= 36000000 THEN premium ELSE 36000000
            se == result.report.super_export
        IN  /\ se.export_kwh = RoundDiv(premium, 360)
            /\ se.credited_kwh = RoundDiv(credited, 360)
            /\ se.earnings = RoundDiv(credited, 2400)
            /\ se.earnings <= 15000

\* A report whose hour 18 has elapsed with 11.6667 kWh exported: 10 kWh
\* are credited and earn 1.50 $.
C19_Witness ==
    /\ FromTwoSamples
    /\ result.is_today
    /\ result.current_hour = 19
    /\ HourExport(result.data_points, 18) = 42000000
    /\ result.report.super_export.export_kwh = 116667
    /\ result.report.super_export.credited_kwh = 100000
    /\ result.report.super_export.earnings = 15000

PeakHours == {16, 17, 20}
OffpeakHours == 10 .. 13

\* C20: the ordinary export earnings are the sum, over the fully elapsed
\* hours outside the window, of the hour's export x the rate of its tier,
\* every hour having exactly one tier (peak for 16, 17 and 20, off-peak
\* for 10 to 13, shoulder otherwise); a window hour adds nothing to the
\* ordinary export energy or earnings, also when the window's export
\* exceeds the premium cap.
C20_OrdinaryExport ==
    /\ \A h \in 0 .. 23 :
          get_fit_period(h) =
              IF h \in PeakHours THEN <<"peak", fit_rate_peak>>
              ELSE IF h \in OffpeakHours THEN <<"offpeak", fit_rate_offpeak>>
              ELSE <<"shoulder", fit_rate_shoulder>>
    /\ FromTwoSamples =>
          LET dp == result.data_points
              outside == ElapsedHours \ {18, 19}
              peak == ExportOver(dp, outside \cap PeakHours)
              shoulder ==
                  ExportOver(dp, outside \ (PeakHours \cup OffpeakHours))
              rf == result.report.regular_fit
          IN  /\ rf.export_kwh = RoundDiv(ExportOver(dp, outside), 360)
              /\ rf.earnings = RoundDiv(10 * peak + shoulder, 120000)

\* A past day with 11.6667 kWh exported in peak hour 17 and as much in
\* window hour 18, above the cap: the ordinary export is that of hour 17
\* alone and earns 0.35 $.
C20_Witness ==
    /\ FromTwoSamples
    /\ ~result.is_today
    /\ HourExport(result.data_points, 17) = 42000000
    /\ HourExport(result.data_points, 18) = 42000000
    /\ result.report.super_export.credited_kwh = 100000
    /\ result.report.regular_fit.export_kwh = 116667
    /\ result.report.regular_fit.earnings = 3500

(***************************************************************************)
(* Properties of the legacy file.                                          *)
(***************************************************************************)
\* The well-formed rows of date dt in file p.
RowsOfDate(p, dt) ==
    {i \in 2 .. Len(files[p]) :
        /\ WellFormed(files[p][i])
        /\ DateOf(files[p][i].timestamp.ts) = dt}

\* C21: the legacy file is read for a date only when the file of the
\* date's month is absent; when the month's file exists, no row of the
\* legacy file is added to the samples of the date, whose count is that
\* of the month's file.
C21_LegacyOnlyWithoutMonthFile ==
    (/\ result.op = "daily"
     /\ Exists(<<result.target_date[1], result.target_date[2]>>)) =>
        /\ ~InSeq(LegacyPath, result.files)
        /\ result.totals.count =
              Cardinality(RowsOfDate(<<result.target_date[1],
                                       result.target_date[2]>>,
                                     result.target_date))

(***************************************************************************)
(* Properties of the partition files under the single writer.              *)
(***************************************************************************)
\* The number of header rows in a file.
HeaderCount(rows) ==
    Cardinality({i \in 1 .. Len(rows) : rows[i].kind = "header"})

\* A file holds one header row, first, and data rows after it.
OneHeaderFirst(rows) ==
    /\ Len(rows) >= 2
    /\ rows[1] = HeaderRow
    /\ HeaderCount(rows) = 1
    /\ \A i \in 2 .. Len(rows) : rows[i].kind = "row"

\* The step appends the row of the cycle's sample to one file, which is
\* created with its header if it did not exist, and leaves the other files
\* as they were.
AppendsOneRow ==
    \E p \in DOMAIN files' :
        /\ files'[p] = IF p \in DOMAIN files
                       THEN Append(files[p], RowOf(current_data))
                       ELSE <<HeaderRow, RowOf(current_data)>>
        /\ DOMAIN files' = DOMAIN files \cup {p}
        /\ \A q \in DOMAIN files : q # p => files'[q] = files[q]

\* C25: after any sequence of appends by the single writer every
\* partition file has exactly one header row, its first, followed by data
\* rows; every successful append adds the row of its sample at the end of
\* one file, creating the file (header first) only when the month had
\* none; no other step changes, truncates or deletes a file.
C25_OneHeaderThenRowsInOrder ==
    /\ [](\A p \in DOMAIN files : OneHeaderFirst(files[p]))
    /\ [][IF pc = "log" /\ pc' = "sleep"
          THEN AppendsOneRow
          ELSE files' = files]_vars

\* Two appends to the file of 2024-12 and, after midnight, a first append
\* that creates the file of 2025-01.
C25_Witness ==
    /\ DOMAIN files = {<<2024, 12>>, <<2025, 1>>}
    /\ Len(files[<<2024, 12>>]) = 3
    /\ Len(files[<<2025, 1>>]) = 2
    /\ Len(pushed) = 3

(***************************************************************************)
(* Properties of the history results.                                      *)
(***************************************************************************)
\* The result set of a history query before it is thinned.
ResultSet ==
    IF result.op = "history"
    THEN Recent(historical_data, 1, result.minutes)
    ELSE IF result.source = "memory"
    THEN InRangeOf(historical_data, 1, result.start_date, result.end_date)
    ELSE SortByTimestamp(
             ReadAll(get_log_files_for_date_range(result.start_date,
                                                  result.end_date),
                     1, result.start_date, result.end_date))

\* data holds the elements of all at positions 0, n, 2n, ..., in order.
EveryNth(data, all, n) ==
    /\ Len(data) = Cardinality({i \in 0 .. Len(all) - 1 : i % n = 0})
    /\ \A j \in 1 .. Len(data) : data[j] = all[(j - 1) * n + 1]

\* C26: whenever a history result set has more elements than a positive
\* limit, the elements returned are exactly those at positions 0, stride,
\* 2 x stride, ... of the set, in order, with stride = count // limit, on
\* every history path, read from the partitions or from the buffer.
C26_StrideOnEveryPath ==
    (/\ result.op \in {"history", "history_range"}
     /\ result.limit > 0
     /\ Len(ResultSet) > result.limit) =>
        EveryNth(result.data, ResultSet, Len(ResultSet) \div result.limit)

(***************************************************************************)
(* Properties of the earnings reports.                                     *)
(***************************************************************************)
\* C27: the export and import energy the earnings computation holds for
\* each fully elapsed hour equal the unrounded grid export and grid import
\* energy the hourly aggregation accumulates for that hour from the same
\* samples.
C27_EarningsHoursAreHourlyTotals ==
    FromTwoSamples =>
        \A h \in ElapsedHours :
            /\ result.acc.hourly_export[h] =
                   HourlyAcc(result.data_points)[h].energy["grid_export"]
            /\ result.acc.hourly_import[h] =
                   HourlyAcc(result.data_points)[h].energy["grid_import"]

\* At 19:30 of the day, hour 17 has imported 181 W over 600 s and hour 18
\* exported 70 kW over 600 s.
C27_Witness ==
    /\ FromTwoSamples
    /\ result.is_today
    /\ result.current_hour = 19
    /\ result.acc.hourly_import[17] = 108600
    /\ result.acc.hourly_export[18] = 42000000
    /\ HourlyAcc(result.data_points)[18].energy["grid_export"] = 42000000

\* C28: every earnings report, the one for fewer than 2 samples included,
\* carries the partial-day flag, the cutoff hour, the number of data
\* points and the status of the credit.
C28_EveryReportCarriesFlags ==
    result.op = "earnings" =>
        /\ {"is_partial", "current_hour", "data_points", "zerohero_day"}
               \subseteq DOMAIN result.report
        /\ "status" \in DOMAIN result.report.zerohero_day

\* C30: in every report computed from at least 2 samples, of a complete
\* or a partial day, the total export energy equals the premium-window
\* export plus the ordinary export, before rounding (every hour's export
\* is counted in exactly one of the two), and the total holds the energy
\* of no interval that starts in an hour not fully elapsed.
C30_TotalIsPremiumPlusOrdinary ==
    FromTwoSamples =>
        LET e == EarningsParts(result.data_points, result.is_today,
                               result.current_hour)
            dp == result.data_points
        IN  /\ e.total_export = e.super_export_kwh + e.regular_fit_kwh
            /\ e.super_export_kwh = ExportOver(dp, ElapsedHours \cap {18, 19})
            /\ e.regular_fit_kwh = ExportOver(dp, ElapsedHours \ {18, 19})
            /\ e.total_export = ExportOver(dp, ElapsedHours)

\* At 18:30 of the day: the export of hour 17 is counted, as ordinary
\* export, and the export that started at 18:00 is in no component.
C30_Witness ==
    /\ FromTwoSamples
    /\ result.is_today
    /\ result.current_hour = 18
    /\ HourExport(result.data_points, 17) = 42000000
    /\ HourExport(result.data_points, 18) = 42000000
    /\ EarningsParts(result.data_points, result.is_today,
                     result.current_hour).total_export = 42000000

\* The status of the credit in a report that has one.
FinalStatus(report) ==
    IF "status" \in DOMAIN report.zerohero_day
    THEN report.zerohero_day.status
    ELSE "none"

\* C29: for a fixed date, while the clock does not go back and samples are
\* only appended, with timestamps that do not decrease, pending is the
\* only status that is not final: once a report shows qualified or
\* not_qualified, every later report for the date shows the same status
\* and the same credit.
C29_FinalStatusStays ==
    [][(/\ result.op = "earnings"
        /\ result'.op = "earnings"
        /\ FinalStatus(result.report) \in {"qualified", "not_qualified"}) =>
           /\ FinalStatus(result'.report) = FinalStatus(result.report)
           /\ result'.report.zerohero_day.credit =
                  result.report.zerohero_day.credit]_vars

(***************************************************************************)
(* Properties of the threads and the data lock.                            *)
(***************************************************************************)
\* The positions of the polling thread inside a with data_lock block.
PollerLocked == {"update", "fields", "append", "evict", "handler"}

\* C22: no thread does file I/O on a partition while it holds the data
\* lock: the polling thread holds it for the in-memory update (and in its
\* handler) only and appends to the file after the release; a request
\* holds it only while it copies the snapshot or buffer entries, and has
\* released it before it lists or reads partitions or aggregates.
C22_NoFileIoUnderLock ==
    /\ [](/\ (data_lock = "poller") <=> (pc \in PollerLocked)
          /\ (data_lock = "query") <=> (QueryAt = "locked")
          /\ pc = "log" => data_lock # "poller"
          /\ QueryAt \in {"read", "collected", "copied", "done"} =>
                data_lock # "query")
    /\ [][/\ files' # files => (pc = "log" /\ data_lock # "poller")
          /\ (QueryAt \in {"idle", "read", "collected"}
                 /\ result' # result) => data_lock # "query"]_vars

\* A request reads the partitions while the polling thread holds the lock
\* for its update.
C22_Witness ==
    /\ result.op = "daily"
    /\ QueryAt = "read"
    /\ data_lock = "poller"
    /\ pc = "append"

\* The buffer as it was after the k-th push.
BufferAfter(k) ==
    SubSeq(pushed, Max(1, k - history_size + 1), k)

\* A snapshot whose fields are all of one cycle (or of none yet), with
\* connected as the cycle or its handler left it.
OfOneCycle(d) ==
    \/ d = InitialData
    \/ \E i \in 1 .. Len(pushed) :
          d = pushed[i] \/ d = [pushed[i] EXCEPT !.connected = FALSE]

\* C23: under every interleaving of the polling thread and a request, the
\* data the request returns are the shared state of one instant between
\* two updates: the snapshot has the fields of one cycle, never of two;
\* the buffer copied is the buffer as it was after some push and its
\* eviction; and the entries copied are what is returned, whatever is
\* pushed or evicted after the copy.
C23_QuerySeesOneInstant ==
    /\ (result.op = "current" /\ QueryAt = "done") =>
          OfOneCycle(result.data)
    /\ (result.op = "history" /\ QueryAt \in {"copied", "done"}) =>
          \E k \in 0 .. Len(pushed) : result.copy = BufferAfter(k)
    /\ (result.op = "history" /\ QueryAt = "done") =>
          result.data = result.copy
    /\ (result.op = "daily" /\ QueryAt \in {"collected", "done"}) =>
          (result.source = "memory" =>
              \E k \in 0 .. Len(pushed) :
                  result.data_points =
                      OfDate(BufferAfter(k), 1, result.target_date))

\* A request returns the entry it copied after the buffer has evicted it.
C23_Witness ==
    /\ result.op = "history"
    /\ QueryAt = "done"
    /\ Len(result.data) = 1
    /\ Len(historical_data) = 1
    /\ TsLess(result.data[1].timestamp, historical_data[1].timestamp)

\* C24: under fair scheduling the polling loop neither ends nor blocks:
\* every cycle that starts reaches its sleep, whether it succeeds, reads
\* nothing from the inverter or fails to append; after the sleep a further
\* cycle starts (as long as the model's clock runs); and every acquisition
\* of the data lock, by the polling thread or by a request, is followed
\* by its release.
C24_PollingNeverStops ==
    /\ (pc = "read") ~> (pc = "sleep")
    /\ (pc = "sleep" /\ clock < MaxClock) ~> (pc = "read")
    /\ (data_lock = "poller") ~> (data_lock # "poller")
    /\ (data_lock = "query") ~> (data_lock # "query")

\* A further cycle is about to start after one that read nothing from the
\* inverter and failed to append, and after an earlier one that succeeded.
C24_Witness ==
    /\ pc = "read"
    /\ cyc.log = "failed"
    /\ cyc.regs = AllNone
    /\ Len(pushed) = 2
    /\ pushed[1].soc_inv = 55
    /\ DOMAIN files # {}

=============================================================================
